---- MODULE Spec2Model ----
(***************************************************************************)
(* Model of the schedule / custom-type synchronisation logic of            *)
(* static/main.js (Rink Announcement System control panel).                *)
(*                                                                         *)
(* Strings that the code takes apart (time keys, type tokens, the text of  *)
(* the "times" textarea) are sequences of symbols; a symbol is a single    *)
(* character or a chunk no operation of the code splits ("custom:",        *)
(* "hour", "vip").  Messages are opaque strings.                           *)
(*                                                                         *)
(* A JS Map is a sequence of <<key, value>> pairs in insertion order with  *)
(* pairwise distinct keys.  A JSON object of a response is the sequence of *)
(* its entries in the order Object.entries yields them.                    *)
(*                                                                         *)
(* Every async function is cut at its awaits: one action per segment that  *)
(* runs without yielding.  The page's DOM elements are all present (the    *)
(* "element not found" early returns are not taken).                       *)
(***************************************************************************)
EXTENDS Integers, Sequences, FiniteSets, TLC

(* ------------------------------ bounds --------------------------------- *)

\* Number of operator actions (button clicks) of one session.
MaxOps == 2

\* The calls that may be in flight together: a click while both are in flight
\* is not modelled.
OpIds == {1, 2}

\* Time keys the operator and the server use, as "HH:MM" symbol sequences.
TimeKeys == { <<"0","9",":","0","0">> }

\* Instants at which the upcoming list is computed, in seconds after today's
\* midnight: 08:30:00 and 09:30:00.
Instants == { 30600, 34200 }

\* Names and templates of custom types.
CustomNames == { <<"vip">> }
Templates == { "T1", "T2" }

\* Built-in options of the page's type selector, in page order (the model's
\* page offers one of the four built-in kinds).
PageOptions == << <<"hour">> >>

\* Error messages the remote store attaches to a rejection.
ErrMsgs == { "Invalid time format" }

\* Time keys, type tokens and instants of the specifications that exercise
\* the cache, the list and the projector on their own: 10:00 and 10:55; a
\* built-in kind, the colour warning, the custom types "vip" and "vip=vip";
\* 08:59:00, 08:59:30, 08:59:31, 09:00:00, 09:45:00, 09:50:00, 10:00:00,
\* 10:00:01 and 10:30:00.
ListKeys == { <<"1","0",":","0","0">>, <<"1","0",":","5","5">> }
ListTokens == { <<"hour">>, <<":","5","5">>, <<"custom:","vip">>,
                <<"custom:","vip","=","vip">> }
ProjInstants == { 32340, 32370, 32371, 32400, 35100, 35400, 36000, 36001, 37800 }

\* Time keys, type tokens and instants of the specification that exercises
\* the projector's order around midnight: 00:10, the same minute written 0:10
\* as a hand-edited configuration may hold it, and 23:50; 00:05:00, 23:30:00
\* and 23:55:00.
NightKeys == { <<"0","0",":","1","0">>, <<"0",":","1","0">>, <<"2","3",":","5","0">> }
NightTokens == { <<"hour">>, <<"rules">> }
NightInstants == { 300, 84600, 86100 }

\* Lines a hand-edited schedule field may hold, and the instants at which
\* the projector reads it (09:30:00 and 10:30:00): a well-formed line, a line
\* with no '=', a line with no type token, a line that is no time at all, a
\* time with no minutes and a time with minutes out of range.
RawLines == { <<"1","0",":","0","0"," ","="," ","hour">>,
              <<"1","0",":","0","0">>,
              <<"1","0",":","0","0"," ","=">>,
              <<"rules">>,
              <<"1","0"," ","="," ","hour">>,
              <<"1","0",":","7","5"," ","="," ","hour">> }
RawInstants == { 34200, 37800 }

\* Type tokens and instants of the specification that exercises the labels:
\* the four built-in kinds, a custom type, a token that is no kind at all and
\* a token that names a property every object inherits; 09:00:00 and
\* 10:00:00.
LabelTokens == { <<":","5","5">>, <<"hour">>, <<"rules">>, <<"ad">>,
                 <<"custom:","vip">>, <<"skate">>, <<"constructor">> }
LabelInstants == { 32400, 36000 }

\* The announcement bodies a configuration may hold, the four together.
Announcements ==
    { [hour |-> "H1", fiftyfive |-> "F1", rules |-> "R1", ad |-> "A1"],
      [hour |-> "H2", fiftyfive |-> "F2", rules |-> "R2", ad |-> "A2"] }

\* Messages the remote store attaches to a saved file: none, or one.
SaveMsgs == { "", "Configuration saved" }

(* ------------------------------ helpers -------------------------------- *)

Range(s) == { s[i] : i \in DOMAIN s }

CustomToken(name) == <<"custom:">> \o name

BuiltinOptions == Range(PageOptions)

Tokens == BuiltinOptions \cup { CustomToken(n) : n \in CustomNames }

\* Partial functions from K to V: the remote store's mappings.
PartialMaps(K, V) == UNION { [D -> V] : D \in SUBSET K }

Put(f, k, v) == [x \in DOMAIN f \cup {k} |-> IF x = k THEN v ELSE f[x]]

Del(f, k) == [x \in DOMAIN f \ {k} |-> f[x]]

\* The orders in which the entries of a JSON object may be listed.
Orderings(f) ==
    LET n == Cardinality(DOMAIN f)
        perms == { p \in [1..n -> DOMAIN f] : \A a, b \in 1..n : p[a] = p[b] => a = b }
    IN  { [i \in 1..n |-> <<p[i], f[p[i]]>>] : p \in perms }

(* ------------------------------ JS Map --------------------------------- *)

MapKeys(m) == { m[i][1] : i \in DOMAIN m }

MapHas(m, k) == k \in MapKeys(m)

MapGet(m, k) == (CHOOSE i \in DOMAIN m : m[i][1] = k)

\* Mutant of MapSet: the entry is added without looking for its key.
MapSetAppend(m, k, v) == Append(m, <<k, v>>)

\* Map.prototype.set: overwrite in place, or append.
MapSet(m, k, v) ==
    IF MapHas(m, k)
    THEN [i \in DOMAIN m |-> IF m[i][1] = k THEN <<k, v>> ELSE m[i]]
    ELSE Append(m, <<k, v>>)

\* The mapping a Map holds, as a function.
MapToFun(m) == [k \in MapKeys(m) |-> m[MapGet(m, k)][2]]

RECURSIVE SetAll(_, _)
\* entries.forEach(([k, v]) => map.set(k, v)) on map m.
SetAll(m, entries) ==
    IF entries = <<>> THEN m
    ELSE SetAll(MapSet(m, Head(entries)[1], Head(entries)[2]), Tail(entries))

\* Mutant of ReplaceAll: the snapshot's entries are added after the old ones.
ReplaceAllAppend(m, entries) == m \o entries

\* Mutant of ReplaceAll: the clear() is missing, the snapshot is merged in.
ReplaceAllNoClear(m, entries) == SetAll(m, entries)

\* map.clear() followed by the forEach that sets every entry of the snapshot.
ReplaceAll(m, entries) == SetAll(<<>>, entries)

(* ------------------------------ strings -------------------------------- *)

\* const x = v; then the rest, F, reads x: v is evaluated once.
With(v, F(_)) == CHOOSE r \in { F(x) : x \in {v} } : TRUE

\* UTF-16 code of a symbol's first character: what string comparison reads.
SymCode(c) ==
    CASE c = " " -> 32
      [] c = "," -> 44
      [] c = "0" -> 48 [] c = "1" -> 49 [] c = "2" -> 50 [] c = "3" -> 51
      [] c = "4" -> 52 [] c = "5" -> 53 [] c = "6" -> 54 [] c = "7" -> 55
      [] c = "8" -> 56 [] c = "9" -> 57
      [] c = ":" -> 58
      [] c = "=" -> 61
      [] c = "ad" -> 97
      [] c = "constructor" -> 99
      [] c = "custom:" -> 99
      [] c = "hour" -> 104
      [] c = "rules" -> 114
      [] c = "skate" -> 115
      [] c = "vip" -> 118
      [] OTHER -> 0

RECURSIVE StrLess(_, _)
\* a < b for strings.
StrLess(a, b) ==
    IF b = <<>> THEN FALSE
    ELSE IF a = <<>> THEN TRUE
    ELSE IF SymCode(Head(a)) /= SymCode(Head(b)) THEN SymCode(Head(a)) < SymCode(Head(b))
    ELSE StrLess(Tail(a), Tail(b))

\* String([time, type]): what Array.prototype.sort compares by default.
EntryString(e) == e[1] \o <<",">> \o e[2]

RECURSIVE InsertSorted(_, _)
InsertSorted(e, s) ==
    IF s = <<>> THEN <<e>>
    ELSE IF StrLess(EntryString(e), EntryString(Head(s))) THEN <<e>> \o s
    ELSE With(InsertSorted(e, Tail(s)), LAMBDA rest : <<Head(s)>> \o rest)

\* Mutant of SortEntries: the entries are listed in the Map's order.
SortEntriesNone(s) == s

RECURSIVE SortEntries(_)
\* [...entries].sort(): stable, ascending by the entries' strings.
SortEntries(s) ==
    IF s = <<>> THEN <<>>
    ELSE With(SortEntries(SubSeq(s, 1, Len(s) - 1)),
              LAMBDA sorted : InsertSorted(s[Len(s)], sorted))

StartsWith(s, sym) == s /= <<>> /\ Head(s) = sym

RECURSIVE RemoveFirst(_, _)
\* s.replace(sym, ''): the first occurrence removed.
RemoveFirst(s, sym) ==
    IF s = <<>> THEN <<>>
    ELSE IF Head(s) = sym THEN Tail(s)
    ELSE <<Head(s)>> \o RemoveFirst(Tail(s), sym)

RECURSIVE Split(_, _)
\* s.split(sep) for a one-character separator.
Split(s, sep) ==
    IF \A i \in DOMAIN s : s[i] /= sep THEN <<s>>
    ELSE With(CHOOSE i \in DOMAIN s : s[i] = sep /\ \A j \in 1..(i - 1) : s[j] /= sep,
              LAMBDA k : With(SubSeq(s, k + 1, Len(s)),
                              LAMBDA rest : <<SubSeq(s, 1, k - 1)>> \o Split(rest, sep)))

RECURSIVE Join(_, _)
\* lines.join(sep)
Join(lines, sep) ==
    IF lines = <<>> THEN <<>>
    ELSE IF Len(lines) = 1 THEN lines[1]
    ELSE lines[1] \o <<sep>> \o Join(Tail(lines), sep)

IsSpace(c) == c \in {" ", "\n"}

RECURSIVE TrimStart(_)
TrimStart(s) == IF s /= <<>> /\ IsSpace(Head(s)) THEN TrimStart(Tail(s)) ELSE s

RECURSIVE TrimEnd(_)
TrimEnd(s) ==
    IF s /= <<>> /\ IsSpace(s[Len(s)]) THEN TrimEnd(SubSeq(s, 1, Len(s) - 1)) ELSE s

\* s.trim()
Trim(s) == With(TrimStart(s), LAMBDA t : TrimEnd(t))

DigitValue(c) == SymCode(c) - 48

RECURSIVE DigitsValue(_, _)
DigitsValue(s, acc) ==
    IF s = <<>> THEN acc
    ELSE With(10 * acc + DigitValue(Head(s)), LAMBDA next : DigitsValue(Tail(s), next))

\* The value that stands for NaN and for an invalid Date: no string of
\* digits has it.
NaN == 0 - 1

\* The value of a destructured element the array does not have: a symbol no
\* text of the model holds.
Undefined == <<"undefined">>

Digits == { "0", "1", "2", "3", "4", "5", "6", "7", "8", "9" }

\* Number(s): the value of a string of decimal digits with white space
\* around it, 0 for the empty string, NaN for any other string of the model.
ToNumber(s) ==
    With(Trim(s), LAMBDA t :
        IF \A i \in DOMAIN t : t[i] \in Digits THEN DigitsValue(t, 0) ELSE NaN)

\* Utils.formatTime: 12-hour rendering, as <<displayHours, minutes, period>>.
FormatTime(time) ==
    With(Split(time, ":"), LAMBDA parts :
    With(ToNumber(parts[1]), LAMBDA hours :
    With(ToNumber(parts[2]), LAMBDA minutes :
        LET period == IF hours >= 12 THEN "PM" ELSE "AM"
            displayHours == IF hours % 12 /= 0 THEN hours % 12 ELSE 12
        IN  <<displayHours, minutes, period>>)))

(* ------------------------------ rendering ------------------------------ *)

\* typeLabels[type] || type: the built-in label table, an object literal.  A
\* token that names a property the literal inherits from Object.prototype
\* reads that property, here the constructor function as a template
\* literal prints it.
TypeLabels(type) ==
    CASE type = <<":", "5", "5">> -> <<"Color Warning">>
      [] type = <<"hour">> -> <<"Hour Change">>
      [] type = <<"rules">> -> <<"Rules">>
      [] type = <<"ad">> -> <<"Advertisement">>
      [] type = <<"constructor">> -> <<"function Object() { [native code] }">>
      [] OTHER -> type

\* The label of a schedule item.
TypeLabel(type) ==
    IF StartsWith(type, "custom:")
    THEN <<"Custom: ">> \o RemoveFirst(type, "custom:")
    ELSE TypeLabels(type)

\* scheduleEditor.updateScheduleList: the list's items.
ScheduleListOf(m) ==
    With(SortEntries(m), LAMBDA timeEntries :
        [i \in DOMAIN timeEntries |->
            [type |-> timeEntries[i][2],
             time |-> FormatTime(timeEntries[i][1]),
             label |-> TypeLabel(timeEntries[i][2]),
             del |-> timeEntries[i][1]]])

\* scheduleEditor.updateScheduleList: the value of the "times" textarea.
TimesTextOf(m) ==
    With(SortEntries(m), LAMBDA timeEntries :
        Join([i \in DOMAIN timeEntries |->
                 timeEntries[i][1] \o <<" ", "=", " ">> \o timeEntries[i][2]], "\n"))

\* customTypes.updateTypesList: the list's items, in the Map's order.
TypesListOf(m) == [i \in DOMAIN m |-> [name |-> m[i][1], template |-> m[i][2]]]

\* Mutant of TypeDropdownOf: the options are not cleared, a custom option per
\* name of the Map is added to those already there.
TypeDropdownAppend(options, m) == options \o [i \in DOMAIN m |-> CustomToken(m[i][1])]

\* customTypes.updateTypeDropdown: built-in options kept, one custom option
\* per name of the Map.
TypeDropdownOf(options, m) ==
    SelectSeq(options, LAMBDA o : ~StartsWith(o, "custom:"))
        \o [i \in DOMAIN m |-> CustomToken(m[i][1])]

(* ------------------------------ upcoming ------------------------------- *)

\* const [timeStr, type] = line.split('=').map(part => part.trim())
ParseLine(line) ==
    With(Split(line, "="), LAMBDA parts :
        [time |-> Trim(parts[1]),
         type |-> IF Len(parts) >= 2 THEN Trim(parts[2]) ELSE Undefined])

\* Seconds in a calendar day.
DaySeconds == 24 * 3600

\* Mutant of ScheduleTime: a time that has passed today is not moved to
\* tomorrow.
ScheduleTimeNoRollover(timeStr, now) ==
    With(Split(timeStr, ":"), LAMBDA parts :
        ToNumber(parts[1]) * 3600 + ToNumber(parts[2]) * 60)

\* The Date the projector gives a line: today at hours:minutes:00, or the
\* same time tomorrow when that is before now.  In seconds after today's
\* midnight; hours or minutes out of range carry over as setHours carries
\* them; an invalid Date (hours or minutes NaN, minutes missing) is NaN and
\* compares false with now.
ScheduleTime(timeStr, now) ==
    With(Split(timeStr, ":"), LAMBDA parts :
    With(ToNumber(parts[1]), LAMBDA hours :
    With(IF Len(parts) >= 2 THEN ToNumber(parts[2]) ELSE NaN, LAMBDA minutes :
        IF hours = NaN \/ minutes = NaN THEN NaN
        ELSE With(hours * 3600 + minutes * 60, LAMBDA today :
                 IF today < now THEN today + DaySeconds ELSE today))))

\* Mutant of MinutesUntil: an exact half minute rounds down.
MinutesUntilHalfDown(scheduleTime, now) ==
    IF scheduleTime = NaN THEN NaN ELSE (2 * (scheduleTime - now) + 59) \div 120

\* Math.round((scheduleTime - now) / 1000 / 60): halves round up; NaN for
\* an invalid Date.
MinutesUntil(scheduleTime, now) ==
    IF scheduleTime = NaN THEN NaN ELSE (2 * (scheduleTime - now) + 60) \div 120

RECURSIVE InsertByTime(_, _)
InsertByTime(e, s) ==
    IF s = <<>> THEN <<e>>
    ELSE IF e.scheduleTime < Head(s).scheduleTime THEN <<e>> \o s
    ELSE With(InsertByTime(e, Tail(s)), LAMBDA rest : <<Head(s)>> \o rest)

\* Mutant of SortByTime: the items stay in the order of the lines.
SortByTimeNone(s) == s

RECURSIVE SortByTime(_)
\* .sort((a, b) => a.scheduleTime - b.scheduleTime): stable.
SortByTime(s) ==
    IF s = <<>> THEN <<>>
    ELSE With(SortByTime(SubSeq(s, 1, Len(s) - 1)),
              LAMBDA sorted : InsertByTime(s[Len(s)], sorted))

\* The lines of the textarea as the projector reads them: trimmed, split at
\* line ends, blank lines dropped, each split at '=' and its parts trimmed.
ParseSchedule(text) ==
    With(SelectSeq(Split(Trim(text), "\n"), LAMBDA l : Trim(l) /= <<>>), LAMBDA lines :
        [k \in DOMAIN lines |-> ParseLine(lines[k])])

\* The number of items forEach renders: type.startsWith throws a TypeError
\* at the first item whose type is undefined, and the items after it are
\* not reached.
Rendered(upcoming) ==
    IF \A k \in DOMAIN upcoming : upcoming[k].type /= Undefined THEN Len(upcoming)
    ELSE (CHOOSE k \in DOMAIN upcoming :
             /\ upcoming[k].type = Undefined
             /\ \A j \in 1..(k - 1) : upcoming[j].type /= Undefined) - 1

\* Mutant of UpcomingOf: an entry exactly 60 minutes out is dropped.
UpcomingOfStrictWindow(text, now) ==
    With(SelectSeq(Split(Trim(text), "\n"), LAMBDA l : Trim(l) /= <<>>), LAMBDA lines :
    With(SelectSeq([k \in DOMAIN lines |->
                      With(ParseLine(lines[k]), LAMBDA parsed :
                      With(ScheduleTime(parsed.time, now), LAMBDA scheduleTime :
                          [time |-> parsed.time, type |-> parsed.type,
                           minutesUntil |-> MinutesUntil(scheduleTime, now),
                           scheduleTime |-> scheduleTime]))],
                   LAMBDA it : it.minutesUntil /= NaN /\ it.minutesUntil < 60), LAMBDA due :
    With(SortByTime(due), LAMBDA upcoming :
        [k \in 1..Rendered(upcoming) |->
            [type |-> upcoming[k].type,
             time |-> FormatTime(upcoming[k].time),
             label |-> TypeLabel(upcoming[k].type),
             countdown |-> upcoming[k].minutesUntil]])))

\* updateUpcomingAnnouncements: the items of #upcomingList computed from the
\* textarea's value at instant now; the items rendered before the exception
\* when the call throws.
UpcomingOf(text, now) ==
    With(SelectSeq(Split(Trim(text), "\n"), LAMBDA l : Trim(l) /= <<>>), LAMBDA lines :
    With(SelectSeq([k \in DOMAIN lines |->
                      With(ParseLine(lines[k]), LAMBDA parsed :
                      With(ScheduleTime(parsed.time, now), LAMBDA scheduleTime :
                          [time |-> parsed.time, type |-> parsed.type,
                           minutesUntil |-> MinutesUntil(scheduleTime, now),
                           scheduleTime |-> scheduleTime]))],
                   LAMBDA it : it.minutesUntil /= NaN /\ it.minutesUntil <= 60), LAMBDA due :
    With(SortByTime(due), LAMBDA upcoming :
        [k \in 1..Rendered(upcoming) |->
            [type |-> upcoming[k].type,
             time |-> FormatTime(upcoming[k].time),
             label |-> TypeLabel(upcoming[k].type),
             countdown |-> upcoming[k].minutesUntil]])))

\* updateUpcomingAnnouncements throws: a retained item has no type.
UpcomingThrows(text, now) ==
    With(SelectSeq(Split(Trim(text), "\n"), LAMBDA l : Trim(l) /= <<>>), LAMBDA lines :
        \E k \in DOMAIN lines :
            With(ParseLine(lines[k]), LAMBDA parsed :
            With(MinutesUntil(ScheduleTime(parsed.time, now), now), LAMBDA minutesUntil :
                parsed.type = Undefined /\ minutesUntil /= NaN /\ minutesUntil <= 60)))

(* ------------------------------ state ---------------------------------- *)

VARIABLES
    srvTimes,       \* remote store: time -> type token
    srvTypes,       \* remote store: custom name -> template
    times,          \* scheduleEditor.times (Map)
    types,          \* customTypes.types (Map)
    scheduleList,   \* #scheduleList items
    timesText,      \* #times textarea value
    typesList,      \* #customTypesList items
    typeSelect,     \* #newType options
    upcoming,       \* #upcomingList items
    clock,          \* the `now` the items of #upcomingList were computed at
    overlay,        \* #loadingOverlay has class "active"
    dayInfo,        \* what the day-configuration panel shows
    clicks,         \* how many calls the operator has started
    lastSnap,       \* history: the last response whose mappings reached a cache
    ops,            \* the async calls started by the operator's clicks
    srvAnnouncements, \* remote store: the four announcement bodies
    templateFields, \* the values of #hour_template, #fiftyfive_template,
                    \* #rules_template and #ad_template
    saveIniStatus   \* #saveIniStatus: its class and its text

vars == <<srvTimes, srvTypes, times, types, scheduleList, timesText, typesList,
          typeSelect, upcoming, clock, overlay, dayInfo, clicks, lastSnap, ops,
          srvAnnouncements, templateFields, saveIniStatus>>

server == <<srvTimes, srvTypes>>
caches == <<times, types>>
scheduleViews == <<scheduleList, timesText>>
typeViews == <<typesList, typeSelect>>
projection == <<upcoming, clock>>
views == <<scheduleList, timesText, typesList, typeSelect, upcoming, clock>>
config == <<srvAnnouncements, templateFields, saveIniStatus>>

MutateKinds == {"addTime", "deleteTime", "addType"}

NoAnnouncements == [hour |-> "", fiftyfive |-> "", rules |-> "", ad |-> ""]

NoResp == [shape |-> "none", times |-> <<>>, types |-> <<>>, err |-> "",
           ann |-> NoAnnouncements, reload |-> FALSE]

NoStatus == <<"", "">>

NoNote == <<>>

\* A call not yet made.  kind: the function called; pc: where it is suspended;
\* arg: its local inputs; resp: the response it is about to read; note: the
\* notification it has put into .flash-container, as the <<type, message>>
\* given to Utils.showNotification; mut, day, snap: what became of its
\* mutation request, of its day-configuration fetch and of its snapshot fetch.
IdleOp == [kind |-> "none", pc |-> "idle", arg |-> <<>>, resp |-> NoResp,
           note |-> NoNote, mut |-> "none", day |-> "none", snap |-> "none"]

\* Messages the browser supplies: a rejected fetch, a body that is not JSON.
FetchErrorMessage == "Failed to fetch"
JsonErrorMessage == "Unexpected token < in JSON at position 0"

\* The configuration part of the page where nothing saves a configuration
\* file: the store's announcement bodies, shown in the template fields, and
\* an empty save status.
FixedConfig ==
    /\ srvAnnouncements = [hour |-> "H1", fiftyfive |-> "F1", rules |-> "R1", ad |-> "A1"]
    /\ templateFields = srvAnnouncements
    /\ saveIniStatus = NoStatus

Init ==
    /\ srvTimes \in PartialMaps(TimeKeys, Tokens)
    /\ srvTypes \in PartialMaps(CustomNames, Templates)
    /\ times = <<>>
    /\ types = <<>>
    /\ scheduleList = ScheduleListOf(<<>>)
    /\ timesText = TimesTextOf(<<>>)
    /\ typesList = TypesListOf(<<>>)
    /\ typeSelect = TypeDropdownOf(PageOptions, <<>>)
    /\ clock \in Instants
    /\ upcoming = UpcomingOf(timesText, clock)
    /\ overlay = FALSE
    /\ dayInfo = "current day"
    /\ clicks = 0
    /\ lastSnap = NoResp
    /\ ops = [i \in OpIds |-> IdleOp]
    /\ FixedConfig

\* A slot is free when its call has not started or has returned.
Free(op) == op.pc \in {"idle", "done"}

\* A click starts a call in the first free slot.
CanStart(i) ==
    /\ clicks < MaxOps
    /\ Free(ops[i])
    /\ \A j \in OpIds : j < i => ~Free(ops[j])

\* The calls as a click that starts call i with record `op` leaves them: of a
\* call that returned before the click nothing is left (its notification
\* has been dismissed).
Started(i, op) ==
    [j \in OpIds |-> IF j = i THEN op ELSE IF Free(ops[j]) THEN IdleOp ELSE ops[j]]

\* Mutant of Finished: a call whose snapshot fetch failed sends it again.
FinishedRetry(op, note, mut, snap) ==
    IF snap = "failed"
    THEN [op EXCEPT !.pc = "snapReq", !.resp = NoResp]
    ELSE [kind |-> op.kind, pc |-> "done", arg |-> <<>>, resp |-> NoResp,
          note |-> note, mut |-> mut, day |-> op.day, snap |-> snap]

\* A call that returned: its locals are gone, its notification and outcome stay.
Finished(op, note, mut, snap) ==
    [kind |-> op.kind, pc |-> "done", arg |-> <<>>, resp |-> NoResp,
     note |-> note, mut |-> mut, day |-> op.day, snap |-> snap]

(* ------------------------------ mutations ------------------------------ *)

\* Mutant of AddTimeStart: the new entry is written into the cache before the
\* request is sent (an optimistic update).
AddTimeStartOptimistic(i, time, type) ==
    /\ CanStart(i)
    /\ time /= <<>> /\ type /= <<>>
    /\ ops' = Started(i, [IdleOp EXCEPT !.kind = "addTime", !.pc = "mutReq",
                                        !.arg = <<time, type>>])
    /\ overlay' = TRUE
    /\ clicks' = clicks + 1
    /\ times' = MapSet(times, time, type)
    /\ UNCHANGED <<server, types, views, dayInfo, lastSnap>>
    /\ UNCHANGED config

\* addTime up to its first await: the inputs are read, empty ones refused,
\* the overlay shown and POST /add_time sent.
AddTimeStart(i, time, type) ==
    /\ CanStart(i)
    /\ IF time = <<>> \/ type = <<>>
       THEN /\ ops' = Started(i,
                   Finished([IdleOp EXCEPT !.kind = "addTime"],
                            <<"warning", "Please select both time and announcement type">>,
                            "none", "none"))
            /\ UNCHANGED overlay
       ELSE /\ ops' = Started(i,
                   [IdleOp EXCEPT !.kind = "addTime", !.pc = "mutReq",
                                  !.arg = <<time, type>>])
            /\ overlay' = TRUE
    /\ clicks' = clicks + 1
    /\ UNCHANGED <<server, caches, views, dayInfo, lastSnap>>
    /\ UNCHANGED config

\* deleteTime up to its first await: the button of a listed item is clicked,
\* the operator confirms or not, the overlay is shown and POST /delete_time sent.
DeleteTimeStart(i, time, confirmed) ==
    /\ CanStart(i)
    /\ \E k \in DOMAIN scheduleList : scheduleList[k].del = time
    /\ IF ~confirmed
       THEN /\ ops' = Started(i,
                   Finished([IdleOp EXCEPT !.kind = "deleteTime"], NoNote, "none", "none"))
            /\ UNCHANGED overlay
       ELSE /\ ops' = Started(i,
                   [IdleOp EXCEPT !.kind = "deleteTime", !.pc = "mutReq",
                                  !.arg = <<time>>])
            /\ overlay' = TRUE
    /\ clicks' = clicks + 1
    /\ UNCHANGED <<server, caches, views, dayInfo, lastSnap>>
    /\ UNCHANGED config

\* templateInput.value.trim() for a template: the model's templates hold no
\* white space, the blank input is all white space.
TrimText(t) == IF t = " " THEN "" ELSE t

\* Mutant of AddTypeStart: the inputs are used as typed, without trim().
AddTypeStartUntrimmed(i, nameInput, templateInput) ==
    /\ CanStart(i)
    /\ IF nameInput = <<>> \/ templateInput = ""
       THEN /\ ops' = Started(i,
                   Finished([IdleOp EXCEPT !.kind = "addType"],
                            <<"warning", "Please enter both name and template">>,
                            "none", "none"))
            /\ UNCHANGED overlay
       ELSE /\ ops' = Started(i,
                   [IdleOp EXCEPT !.kind = "addType", !.pc = "mutReq",
                                  !.arg = <<nameInput, templateInput>>])
            /\ overlay' = TRUE
    /\ clicks' = clicks + 1
    /\ UNCHANGED <<server, caches, views, dayInfo, lastSnap>>
    /\ UNCHANGED config

\* addType up to its first await: name and template are the trimmed inputs,
\* empty ones are refused, the overlay is shown and POST /add_custom_type sent.
AddTypeStart(i, nameInput, templateInput) ==
    /\ CanStart(i)
    /\ LET name == Trim(nameInput)
           template == TrimText(templateInput)
       IN  IF name = <<>> \/ template = ""
           THEN /\ ops' = Started(i,
                       Finished([IdleOp EXCEPT !.kind = "addType"],
                                <<"warning", "Please enter both name and template">>,
                                "none", "none"))
                /\ UNCHANGED overlay
           ELSE /\ ops' = Started(i,
                       [IdleOp EXCEPT !.kind = "addType", !.pc = "mutReq",
                                      !.arg = <<name, template>>])
                /\ overlay' = TRUE
    /\ clicks' = clicks + 1
    /\ UNCHANGED <<server, caches, views, dayInfo, lastSnap>>
    /\ UNCHANGED config

\* The remote store's state after it accepted the request of `op`.
StoreAfter(op) ==
    CASE op.kind = "addTime" -> <<Put(srvTimes, op.arg[1], op.arg[2]), srvTypes>>
      [] op.kind = "deleteTime" ->
            <<IF op.arg[1] \in DOMAIN srvTimes THEN Del(srvTimes, op.arg[1]) ELSE srvTimes,
              srvTypes>>
      [] op.kind = "addType" -> <<srvTimes, Put(srvTypes, op.arg[1], op.arg[2])>>

\* The remote store answers a mutation: it accepts and applies it, rejects it
\* (a non-success status with or without an error message in a JSON body), or
\* the exchange fails (a body that is not JSON, no response at all).
ServerMutate(i, shape, err) ==
    /\ ops[i].pc = "mutReq"
    /\ ops[i].kind \in MutateKinds
    /\ shape \in {"ok", "httpErr", "badJson", "netErr"}
    /\ err \in IF shape = "httpErr" THEN ErrMsgs \cup {""} ELSE {""}
    /\ IF shape = "ok"
       THEN /\ srvTimes' = StoreAfter(ops[i])[1]
            /\ srvTypes' = StoreAfter(ops[i])[2]
       ELSE UNCHANGED server
    /\ ops' = [ops EXCEPT ![i].pc = "mutResp", ![i].arg = <<>>,
                          ![i].resp = [NoResp EXCEPT !.shape = shape, !.err = err]]
    /\ UNCHANGED <<caches, views, overlay, dayInfo, clicks, lastSnap>>
    /\ UNCHANGED config

\* result.error || '<fallback>'
FallbackMessage(kind) ==
    CASE kind = "addTime" -> "Failed to add time"
      [] kind = "deleteTime" -> "Failed to delete time"
      [] kind = "addType" -> "Failed to add custom type"
      [] kind = "refreshSchedule" -> "Failed to refresh schedule"
      [] kind = "saveIni" -> "Failed to save file"

SuccessMessage(kind) ==
    CASE kind = "addTime" -> "Time added successfully"
      [] kind = "deleteTime" -> "Time deleted successfully"
      [] kind = "addType" -> "Custom type added successfully"
      [] kind = "refreshSchedule" -> "Schedule refreshed successfully"

\* Mutant of ErrorMessage: the server's message is dropped for the fallback.
ErrorMessageFallbackOnly(kind, r) ==
    CASE r.shape = "netErr" -> FetchErrorMessage
      [] r.shape = "badJson" -> JsonErrorMessage
      [] r.shape = "httpErr" -> FallbackMessage(kind)

\* error.message in the catch block of a call that read response `r`.
ErrorMessage(kind, r) ==
    CASE r.shape = "netErr" -> FetchErrorMessage
      [] r.shape = "badJson" -> JsonErrorMessage
      [] r.shape = "httpErr" -> IF r.err /= "" THEN r.err ELSE FallbackMessage(kind)

\* Mutant of MutateResponse: refreshState is awaited in the finally block, so
\* a failed mutation resynchronises too.
MutateResponseRefreshAlways(i) ==
    /\ ops[i].pc = "mutResp"
    /\ ops[i].kind \in MutateKinds
    /\ IF ops[i].resp.shape = "ok"
       THEN ops' = [ops EXCEPT ![i].pc = "dayWait", ![i].resp = NoResp,
                               ![i].note = <<"success", SuccessMessage(ops[i].kind)>>,
                               ![i].mut = "ok"]
       ELSE ops' = [ops EXCEPT ![i].pc = "dayWait", ![i].resp = NoResp,
                               ![i].note = <<"error", ErrorMessage(ops[i].kind, ops[i].resp)>>,
                               ![i].mut = "fail"]
    /\ UNCHANGED <<server, caches, views, overlay, dayInfo, clicks, lastSnap>>
    /\ UNCHANGED config

\* Mutant of MutateResponse: the catch block only writes the console.
MutateResponseSilentCatch(i) ==
    /\ ops[i].pc = "mutResp"
    /\ ops[i].kind \in MutateKinds
    /\ IF ops[i].resp.shape = "ok"
       THEN /\ ops' = [ops EXCEPT ![i].pc = "dayWait", ![i].resp = NoResp,
                                  ![i].note = <<"success", SuccessMessage(ops[i].kind)>>,
                                  ![i].mut = "ok"]
            /\ UNCHANGED overlay
       ELSE /\ ops' = [ops EXCEPT ![i] = Finished(ops[i], NoNote, "fail", "none")]
            /\ overlay' = FALSE
    /\ UNCHANGED <<server, caches, views, dayInfo, clicks, lastSnap>>
    /\ UNCHANGED config

\* Mutant of MutateResponse: hideLoading is the last statement of the try
\* block instead of a finally block.
MutateResponseNoFinally(i) ==
    /\ ops[i].pc = "mutResp"
    /\ ops[i].kind \in MutateKinds
    /\ IF ops[i].resp.shape = "ok"
       THEN ops' = [ops EXCEPT ![i].pc = "dayWait", ![i].resp = NoResp,
                               ![i].note = <<"success", SuccessMessage(ops[i].kind)>>,
                               ![i].mut = "ok"]
       ELSE ops' = [ops EXCEPT ![i] =
                   Finished(ops[i], <<"error", ErrorMessage(ops[i].kind, ops[i].resp)>>,
                            "fail", "none")]
    /\ UNCHANGED <<server, caches, views, overlay, dayInfo, clicks, lastSnap>>
    /\ UNCHANGED config

\* The response of a mutation arrives.  Failure: the catch block notifies and
\* the finally block hides the overlay.  Success: the success notification is
\* shown and refreshState starts, which calls updateDayConfigInfo, which sends
\* GET /get_day_configs.
MutateResponse(i) ==
    /\ ops[i].pc = "mutResp"
    /\ ops[i].kind \in MutateKinds
    /\ IF ops[i].resp.shape = "ok"
       THEN /\ ops' = [ops EXCEPT ![i].pc = "dayWait", ![i].resp = NoResp,
                                  ![i].note = <<"success", SuccessMessage(ops[i].kind)>>,
                                  ![i].mut = "ok"]
            /\ UNCHANGED overlay
       ELSE /\ ops' = [ops EXCEPT ![i] =
                   Finished(ops[i], <<"error", ErrorMessage(ops[i].kind, ops[i].resp)>>,
                            "fail", "none")]
            /\ overlay' = FALSE
    /\ UNCHANGED <<server, caches, views, dayInfo, clicks, lastSnap>>
    /\ UNCHANGED config

(* ------------------------------ refreshState --------------------------- *)

\* Mutant of DayConfigDone: updateDayConfigInfo lets the error of its fetch
\* out, refreshState's catch block takes it and no snapshot is fetched.
DayConfigDoneAbort(i, ok) ==
    /\ ops[i].pc = "dayWait"
    /\ dayInfo' = IF ok THEN "current day" ELSE "Error loading"
    /\ IF ok
       THEN /\ ops' = [ops EXCEPT ![i].pc = "snapReq", ![i].snap = "sent", ![i].day = "ok"]
            /\ UNCHANGED overlay
       ELSE /\ ops' = [ops EXCEPT ![i] =
                   [Finished(ops[i], ops[i].note, "ok", "none") EXCEPT !.day = "failed"]]
            /\ overlay' = FALSE
    /\ UNCHANGED <<server, caches, views, clicks, lastSnap>>
    /\ UNCHANGED config

\* updateDayConfigInfo settles (it catches its own errors and shows them in
\* the panel), and refreshState goes on to send GET /get_current_schedule.
DayConfigDone(i, ok) ==
    /\ ops[i].pc = "dayWait"
    /\ dayInfo' = IF ok THEN "current day" ELSE "Error loading"
    /\ ops' = [ops EXCEPT ![i].pc = "snapReq", ![i].snap = "sent",
                          ![i].day = IF ok THEN "ok" ELSE "failed"]
    /\ UNCHANGED <<server, caches, views, overlay, clicks, lastSnap>>
    /\ UNCHANGED config

\* A full snapshot of the remote store, its objects' keys in some order.
Snapshots ==
    { [shape |-> "ok", times |-> ts, types |-> ty, err |-> "",
       ann |-> srvAnnouncements, reload |-> FALSE] :
        ts \in Orderings(srvTimes), ty \in Orderings(srvTypes) }

\* A response without the "times" field, or without the "custom_types" field.
PartialSnapshots ==
    { [r EXCEPT !.shape = "noTimes", !.times = <<>>] : r \in Snapshots }
        \cup { [r EXCEPT !.shape = "noTypes", !.types = <<>>] : r \in Snapshots }

\* Responses that carry no snapshot: no response, a non-success HTTP status,
\* a body that is not JSON, a body whose status is not 'success'.
FailedFetches ==
    { [NoResp EXCEPT !.shape = sh] : sh \in {"netErr", "httpErr", "badJson", "statusErr"} }

\* The remote store answers GET /get_current_schedule.
ServerSnapshot(i, r) ==
    /\ ops[i].pc = "snapReq"
    /\ ops[i].kind \in MutateKinds \cup {"saveIni"}
    /\ r \in Snapshots \cup FailedFetches
    /\ ops' = [ops EXCEPT ![i].pc = "snapResp", ![i].resp = r]
    /\ UNCHANGED <<server, caches, views, overlay, dayInfo, clicks, lastSnap>>
    /\ UNCHANGED config

\* The remote store answers GET /get_current_schedule with a body that lacks
\* one of the two mappings.
ServerSnapshotPartial(i, r) ==
    /\ ops[i].pc = "snapReq"
    /\ ops[i].kind \in MutateKinds
    /\ r \in PartialSnapshots
    /\ ops' = [ops EXCEPT ![i].pc = "snapResp", ![i].resp = r]
    /\ UNCHANGED <<server, caches, views, overlay, dayInfo, clicks, lastSnap>>
    /\ UNCHANGED config

\* Mutant of UpdateScheduleData: a custom reference is resolved in the custom
\* type cache, and one the cache does not hold is labelled with its raw token.
UpdateScheduleDataResolved(entries) ==
    /\ times' = ReplaceAll(times, entries)
    /\ scheduleList' =
          [n \in DOMAIN ScheduleListOf(times') |->
              With(ScheduleListOf(times')[n], LAMBDA item :
                  IF StartsWith(item.type, "custom:") /\ ~MapHas(types, Tail(item.type))
                  THEN [item EXCEPT !.label = item.type]
                  ELSE item)]
    /\ timesText' = TimesTextOf(times')

\* times.clear(); Object.entries(data.times).forEach(set); updateScheduleList()
UpdateScheduleData(entries) ==
    /\ times' = ReplaceAll(times, entries)
    /\ scheduleList' = ScheduleListOf(times')
    /\ timesText' = TimesTextOf(times')

\* Mutant of UpdateCustomTypes: the custom types of the snapshot are ignored.
UpdateCustomTypesSkipped(entries) == UNCHANGED <<types, typesList, typeSelect>>

\* types.clear(); Object.entries(data.custom_types).forEach(set);
\* updateTypesList(); updateTypeDropdown()
UpdateCustomTypes(entries) ==
    /\ types' = ReplaceAll(types, entries)
    /\ typesList' = TypesListOf(types')
    /\ typeSelect' = TypeDropdownOf(typeSelect, types')

\* Mutant of RefreshStateResponse: the upcoming list is computed from the
\* schedule text as it was before updateScheduleList wrote the new one.
RefreshStateResponseProjectFirst(i) ==
    /\ ops[i].pc = "snapResp"
    /\ ops[i].kind \in MutateKinds
    /\ LET r == ops[i].resp IN
       CASE r.shape = "ok" ->
              /\ UpdateScheduleData(r.times)
              /\ UpdateCustomTypes(r.types)
              /\ \E t \in Instants : clock' = t /\ upcoming' = UpcomingOf(timesText, t)
              /\ ops' = [ops EXCEPT ![i] = Finished(ops[i], ops[i].note, "ok", "applied")]
         [] r.shape = "noTimes" ->
              /\ times' = <<>>
              /\ UNCHANGED <<types, views>>
              /\ ops' = [ops EXCEPT ![i] = Finished(ops[i], ops[i].note, "ok", "threw")]
         [] r.shape = "noTypes" ->
              /\ UpdateScheduleData(r.times)
              /\ types' = <<>>
              /\ UNCHANGED <<typeViews, projection>>
              /\ ops' = [ops EXCEPT ![i] = Finished(ops[i], ops[i].note, "ok", "threw")]
         [] OTHER ->
              /\ UNCHANGED <<caches, views>>
              /\ ops' = [ops EXCEPT ![i] = Finished(ops[i], ops[i].note, "ok", "failed")]
    /\ lastSnap' = IF ops[i].resp.shape \in {"ok", "noTimes", "noTypes"}
                   THEN ops[i].resp ELSE lastSnap
    /\ overlay' = FALSE
    /\ UNCHANGED <<server, dayInfo, clicks>>
    /\ UNCHANGED config

\* The rest of refreshState once the snapshot fetch settled, and the finally
\* block of the mutation that awaited it.  Every failure ends in the catch
\* block or in no branch at all: the console is written, nothing is shown.
\* Object.entries(undefined) throws after the clear() before it.
RefreshStateResponse(i) ==
    /\ ops[i].pc = "snapResp"
    /\ ops[i].kind \in MutateKinds
    /\ LET r == ops[i].resp IN
       CASE r.shape = "ok" ->
              /\ UpdateScheduleData(r.times)
              /\ UpdateCustomTypes(r.types)
              /\ \E t \in Instants : clock' = t /\ upcoming' = UpcomingOf(timesText', t)
              /\ ops' = [ops EXCEPT ![i] = Finished(ops[i], ops[i].note, "ok", "applied")]
         [] r.shape = "noTimes" ->
              /\ times' = <<>>
              /\ UNCHANGED <<types, views>>
              /\ ops' = [ops EXCEPT ![i] = Finished(ops[i], ops[i].note, "ok", "threw")]
         [] r.shape = "noTypes" ->
              /\ UpdateScheduleData(r.times)
              /\ types' = <<>>
              /\ UNCHANGED <<typeViews, projection>>
              /\ ops' = [ops EXCEPT ![i] = Finished(ops[i], ops[i].note, "ok", "threw")]
         [] OTHER ->
              /\ UNCHANGED <<caches, views>>
              /\ ops' = [ops EXCEPT ![i] = Finished(ops[i], ops[i].note, "ok", "failed")]
    /\ lastSnap' = IF ops[i].resp.shape \in {"ok", "noTimes", "noTypes"}
                   THEN ops[i].resp ELSE lastSnap
    /\ overlay' = FALSE
    /\ UNCHANGED <<server, dayInfo, clicks>>
    /\ UNCHANGED config

(* ------------------------------ refreshSchedule ------------------------ *)

\* refreshSchedule up to its first await: POST /update_schedule {refresh: true}.
RefreshScheduleStart(i) ==
    /\ CanStart(i)
    /\ ops' = Started(i,
           [IdleOp EXCEPT !.kind = "refreshSchedule", !.pc = "snapReq", !.snap = "sent"])
    /\ overlay' = TRUE
    /\ clicks' = clicks + 1
    /\ UNCHANGED <<server, caches, views, dayInfo, lastSnap>>
    /\ UNCHANGED config

\* Responses to POST /update_schedule that carry no snapshot: no response, a
\* body that is not JSON, a non-success status with or without a message.
FailedUpdates ==
    { [NoResp EXCEPT !.shape = sh] : sh \in {"netErr", "badJson"} }
        \cup { [NoResp EXCEPT !.shape = "httpErr", !.err = e] : e \in ErrMsgs \cup {""} }

\* The remote store answers POST /update_schedule: the snapshot, or a failure.
ServerUpdateSchedule(i, r) ==
    /\ ops[i].pc = "snapReq"
    /\ ops[i].kind = "refreshSchedule"
    /\ r \in Snapshots \cup FailedUpdates
    /\ ops' = [ops EXCEPT ![i].pc = "snapResp", ![i].resp = r]
    /\ UNCHANGED <<server, caches, views, overlay, dayInfo, clicks, lastSnap>>
    /\ UNCHANGED config

\* The remote store answers POST /update_schedule with a body that lacks one
\* of the two mappings.
ServerUpdateSchedulePartial(i, r) ==
    /\ ops[i].pc = "snapReq"
    /\ ops[i].kind = "refreshSchedule"
    /\ r \in PartialSnapshots
    /\ ops' = [ops EXCEPT ![i].pc = "snapResp", ![i].resp = r]
    /\ UNCHANGED <<server, caches, views, overlay, dayInfo, clicks, lastSnap>>
    /\ UNCHANGED config

\* The TypeError Object.entries(undefined) throws.
EntriesErrorMessage == "Cannot convert undefined or null to object"

\* The rest of refreshSchedule once its fetch settled.  Only response.ok is
\* looked at: a body with HTTP status 200 is read as a snapshot whatever its
\* "status" field says, and one without "times" makes Object.entries throw
\* after the clear() before it.
RefreshScheduleResponse(i) ==
    /\ ops[i].pc = "snapResp"
    /\ ops[i].kind = "refreshSchedule"
    /\ LET r == ops[i].resp
           ok == <<"success", SuccessMessage("refreshSchedule")>>
       IN
       CASE r.shape = "ok" ->
              /\ UpdateScheduleData(r.times)
              /\ UpdateCustomTypes(r.types)
              /\ \E t \in Instants : clock' = t /\ upcoming' = UpcomingOf(timesText', t)
              /\ ops' = [ops EXCEPT ![i] = Finished(ops[i], ok, "none", "applied")]
         [] r.shape \in {"noTimes", "statusErr"} ->
              /\ times' = <<>>
              /\ UNCHANGED <<types, views>>
              /\ ops' = [ops EXCEPT ![i] =
                     Finished(ops[i], <<"error", EntriesErrorMessage>>, "none", "threw")]
         [] r.shape = "noTypes" ->
              /\ UpdateScheduleData(r.times)
              /\ UNCHANGED <<types, typeViews>>
              /\ \E t \in Instants : clock' = t /\ upcoming' = UpcomingOf(timesText', t)
              /\ ops' = [ops EXCEPT ![i] = Finished(ops[i], ok, "none", "applied")]
         [] OTHER ->
              /\ UNCHANGED <<caches, views>>
              /\ ops' = [ops EXCEPT ![i] =
                     Finished(ops[i], <<"error", ErrorMessage("refreshSchedule", r)>>,
                              "none", "failed")]
    /\ lastSnap' = IF ops[i].resp.shape \in {"ok", "noTimes", "noTypes", "statusErr"}
                   THEN ops[i].resp ELSE lastSnap
    /\ overlay' = FALSE
    /\ UNCHANGED <<server, dayInfo, clicks>>
    /\ UNCHANGED config

(* ------------------------------ specification -------------------------- *)

\* What the operator can type or pick: a time or nothing, an option of the
\* selector or nothing, a name and a template or nothing.
TimeInputs == TimeKeys \cup {<<>>}
TypeInputs == Range(typeSelect) \cup {<<>>}
NameInputs == CustomNames \cup {<<>>, <<" ">>}
TemplateInputs == Templates \cup {"", " "}

Next ==
    \/ \E i \in OpIds, time \in TimeInputs, type \in TypeInputs : AddTimeStart(i, time, type)
    \/ \E i \in OpIds, time \in TimeKeys, confirmed \in BOOLEAN : DeleteTimeStart(i, time, confirmed)
    \/ \E i \in OpIds, name \in NameInputs, template \in TemplateInputs : AddTypeStart(i, name, template)
    \/ \E i \in OpIds, shape \in {"ok", "httpErr", "badJson", "netErr"}, err \in ErrMsgs \cup {""} :
          ServerMutate(i, shape, err)
    \/ \E i \in OpIds : MutateResponse(i)
    \/ \E i \in OpIds, ok \in BOOLEAN : DayConfigDone(i, ok)
    \/ \E i \in OpIds : \E r \in Snapshots \cup FailedFetches : ServerSnapshot(i, r)
    \/ \E i \in OpIds : RefreshStateResponse(i)
    \/ \E i \in OpIds : RefreshScheduleStart(i)
    \/ \E i \in OpIds : \E r \in Snapshots \cup FailedUpdates : ServerUpdateSchedule(i, r)
    \/ \E i \in OpIds : RefreshScheduleResponse(i)

\* The remote store keeps to its interface: a successful snapshot response
\* carries both mappings.
Spec == Init /\ [][Next]_vars

(* ---------------------- cache, list and projector ---------------------- *)

\* The page with both caches empty, its views rendered from them, at an
\* instant of ProjInstants.
CacheInit ==
    /\ srvTimes = <<>> /\ srvTypes = <<>>
    /\ times = <<>> /\ types = <<>>
    /\ scheduleList = ScheduleListOf(<<>>)
    /\ timesText = TimesTextOf(<<>>)
    /\ typesList = TypesListOf(<<>>)
    /\ typeSelect = TypeDropdownOf(PageOptions, <<>>)
    /\ clock \in ProjInstants
    /\ upcoming = UpcomingOf(timesText, clock)
    /\ overlay = FALSE
    /\ dayInfo = "current day"
    /\ clicks = 0
    /\ lastSnap = NoResp
    /\ ops = [i \in OpIds |-> IdleOp]
    /\ FixedConfig

\* scheduleEditor.times.set(time, type), then updateScheduleList() and
\* updateUpcomingAnnouncements() at instant t, as refreshState runs them after
\* its writes.  The first call record keeps the arguments of the write.
TimesSet(time, type, t) ==
    /\ times' = MapSet(times, time, type)
    /\ scheduleList' = ScheduleListOf(times')
    /\ timesText' = TimesTextOf(times')
    /\ clock' = t
    /\ upcoming' = UpcomingOf(timesText', t)
    /\ ops' = [ops EXCEPT ![1] = [IdleOp EXCEPT !.kind = "set", !.pc = "done",
                                                !.arg = <<time, type>>]]
    /\ UNCHANGED <<server, types, typeViews, overlay, dayInfo, clicks, lastSnap>>
    /\ UNCHANGED config

\* updateUpcomingAnnouncements() at instant t.  A call that throws leaves
\* its exception in the second call record.
UpdateUpcomingAnnouncements(t) ==
    /\ clock' = t
    /\ upcoming' = UpcomingOf(timesText, t)
    /\ ops' = IF UpcomingThrows(timesText, t)
              THEN [ops EXCEPT ![2] = [IdleOp EXCEPT !.kind = "project", !.pc = "thrown"]]
              ELSE [ops EXCEPT ![2] = IdleOp]
    /\ UNCHANGED <<server, caches, scheduleViews, typeViews, overlay, dayInfo,
                   clicks, lastSnap>>
    /\ UNCHANGED config

CacheNext ==
    \/ \E time \in ListKeys, type \in ListTokens, t \in ProjInstants : TimesSet(time, type, t)
    \/ \E t \in ProjInstants : UpdateUpcomingAnnouncements(t)

\* Every sequence of writes to the schedule cache, rendered and projected
\* at every instant.
CacheSpec == CacheInit /\ [][CacheNext]_vars

\* The page with both caches empty at an instant of NightInstants.
NightInit ==
    /\ srvTimes = <<>> /\ srvTypes = <<>>
    /\ times = <<>> /\ types = <<>>
    /\ scheduleList = ScheduleListOf(<<>>)
    /\ timesText = TimesTextOf(<<>>)
    /\ typesList = TypesListOf(<<>>)
    /\ typeSelect = TypeDropdownOf(PageOptions, <<>>)
    /\ clock \in NightInstants
    /\ upcoming = UpcomingOf(timesText, clock)
    /\ overlay = FALSE
    /\ dayInfo = "current day"
    /\ clicks = 0
    /\ lastSnap = NoResp
    /\ ops = [i \in OpIds |-> IdleOp]
    /\ FixedConfig

NightNext ==
    \/ \E time \in NightKeys, type \in NightTokens, t \in NightInstants : TimesSet(time, type, t)
    \/ \E t \in NightInstants : UpdateUpcomingAnnouncements(t)

\* Every sequence of writes to the schedule cache, rendered and projected
\* at instants on both sides of midnight.
NightSpec == NightInit /\ [][NightNext]_vars

\* The page with both caches empty at an instant of LabelInstants.
LabelInit ==
    /\ srvTimes = <<>> /\ srvTypes = <<>>
    /\ times = <<>> /\ types = <<>>
    /\ scheduleList = ScheduleListOf(<<>>)
    /\ timesText = TimesTextOf(<<>>)
    /\ typesList = TypesListOf(<<>>)
    /\ typeSelect = TypeDropdownOf(PageOptions, <<>>)
    /\ clock \in LabelInstants
    /\ upcoming = UpcomingOf(timesText, clock)
    /\ overlay = FALSE
    /\ dayInfo = "current day"
    /\ clicks = 0
    /\ lastSnap = NoResp
    /\ ops = [i \in OpIds |-> IdleOp]
    /\ FixedConfig

LabelNext ==
    \/ \E time \in ListKeys, type \in LabelTokens, t \in LabelInstants : TimesSet(time, type, t)
    \/ \E t \in LabelInstants : UpdateUpcomingAnnouncements(t)

\* Every sequence of writes of every kind of type token, rendered and
\* projected.
LabelSpec == LabelInit /\ [][LabelNext]_vars

(* ------------------------------ iniEditor ------------------------------ *)

\* The configurations the files of the remote store hold, each a schedule,
\* custom types and announcement bodies: an empty schedule; one built-in
\* entry; one entry of a custom type, with other bodies.
Stores ==
    { <<ts, ty, an>> \in PartialMaps(TimeKeys, Tokens)
                            \X PartialMaps(CustomNames, Templates) \X Announcements :
        \/ DOMAIN ts = {} /\ DOMAIN ty = {} /\ an.hour = "H1"
        \/ Range(ts) = { <<"hour">> } /\ DOMAIN ty = {} /\ an.hour = "H1"
        \/ Range(ts) = { CustomToken(<<"vip">>) } /\ Range(ty) = { "T1" } /\ an.hour = "H2" }

\* iniEditor.saveIniFile up to its first await.  Without a loaded file or
\* with blank content it warns and returns; else POST /save_ini_content.
SaveIniStart(i, fileLoaded, blank) ==
    /\ CanStart(i)
    /\ IF ~fileLoaded
       THEN /\ saveIniStatus' = <<"error", "No file loaded">>
            /\ ops' = Started(i,
                   Finished([IdleOp EXCEPT !.kind = "saveIni"],
                            <<"warning", "Please load a file first">>, "none", "none"))
            /\ UNCHANGED overlay
       ELSE IF blank
       THEN /\ saveIniStatus' = <<"error", "Content cannot be empty">>
            /\ ops' = Started(i,
                   Finished([IdleOp EXCEPT !.kind = "saveIni"],
                            <<"warning", "INI file content cannot be empty">>,
                            "none", "none"))
            /\ UNCHANGED overlay
       ELSE /\ ops' = Started(i, [IdleOp EXCEPT !.kind = "saveIni", !.pc = "mutReq"])
            /\ overlay' = TRUE
            /\ UNCHANGED saveIniStatus
    /\ clicks' = clicks + 1
    /\ UNCHANGED <<server, caches, views, dayInfo, lastSnap, srvAnnouncements,
                   templateFields>>

\* The remote store answers POST /save_ini_content: it writes the file and,
\* when the file is the active configuration, loads it again and says so
\* (its store is then whatever the file holds); or it rejects the request,
\* or the exchange fails.
ServerSaveIni(i, shape, msg, reload, store) ==
    /\ ops[i].pc = "mutReq"
    /\ ops[i].kind = "saveIni"
    /\ shape \in {"ok", "httpErr", "badJson", "netErr"}
    /\ msg \in IF shape = "ok" THEN SaveMsgs
               ELSE IF shape = "httpErr" THEN ErrMsgs \cup {""} ELSE {""}
    /\ IF shape = "ok" /\ reload
       THEN /\ srvTimes' = store[1]
            /\ srvTypes' = store[2]
            /\ srvAnnouncements' = store[3]
       ELSE /\ store = <<srvTimes, srvTypes, srvAnnouncements>>
            /\ (shape /= "ok" => ~reload)
            /\ UNCHANGED <<server, srvAnnouncements>>
    /\ ops' = [ops EXCEPT ![i].pc = "mutResp",
                          ![i].resp = [NoResp EXCEPT !.shape = shape, !.err = msg,
                                                     !.reload = reload]]
    /\ UNCHANGED <<caches, views, overlay, dayInfo, clicks, lastSnap,
                   templateFields, saveIniStatus>>

\* "Error: " before an error message, in #saveIniStatus.
StatusError(message) == <<"error", "Error: ", message>>

\* saveIniFile from the response of its request to its next await or its
\* end.  A saved file sets the status and shows a success notification;
\* with reload_triggered the call goes on into updateUIAfterReload, which
\* sends GET /get_current_schedule.  A failure sets the status, shows the
\* error and ends the call; the finally block hides the overlay.
SaveIniResponse(i) ==
    /\ ops[i].pc = "mutResp"
    /\ ops[i].kind = "saveIni"
    /\ LET r == ops[i].resp IN
       IF r.shape = "ok"
       THEN /\ saveIniStatus' =
                  <<"success", IF r.err /= "" THEN r.err ELSE "File saved successfully">>
            /\ IF r.reload
               THEN /\ ops' = [ops EXCEPT ![i].pc = "snapReq", ![i].resp = NoResp,
                                          ![i].note = <<"success",
                                               IF r.err /= "" THEN r.err
                                               ELSE "Saved the file successfully">>,
                                          ![i].mut = "ok", ![i].snap = "sent"]
                    /\ UNCHANGED overlay
               ELSE /\ ops' = [ops EXCEPT ![i] =
                           Finished(ops[i],
                                    <<"success", IF r.err /= "" THEN r.err
                                                 ELSE "Saved the file successfully">>,
                                    "ok", "none")]
                    /\ overlay' = FALSE
       ELSE /\ saveIniStatus' = StatusError(ErrorMessage("saveIni", r))
            /\ ops' = [ops EXCEPT ![i] =
                   Finished(ops[i], <<"error", ErrorMessage("saveIni", r)>>,
                            "fail", "none")]
            /\ overlay' = FALSE
    /\ UNCHANGED <<server, caches, views, dayInfo, clicks, lastSnap, srvAnnouncements,
                   templateFields>>

\* `UI update error: ${error.message}` for a snapshot fetch that failed.
ReloadErrorMessage(r) ==
    CASE r.shape = "netErr" -> "UI update error: Failed to fetch"
      [] r.shape = "httpErr" -> "UI update error: Failed to fetch updated schedule"
      [] r.shape = "badJson" -> "UI update error: Unexpected token < in JSON at position 0"
      [] r.shape = "statusErr" -> "UI update error: Unknown error refreshing data"

\* Mutant of UpdateUIAfterReloadResponse: the upcoming list is not computed
\* again.
UpdateUIAfterReloadResponseStale(i) ==
    /\ ops[i].pc = "snapResp"
    /\ ops[i].kind = "saveIni"
    /\ LET r == ops[i].resp IN
       IF r.shape = "ok"
       THEN /\ UpdateScheduleData(r.times)
            /\ UpdateCustomTypes(r.types)
            /\ templateFields' = r.ann
            /\ UNCHANGED projection
            /\ ops' = [ops EXCEPT ![i] =
                   Finished(ops[i],
                            <<"success", "Configuration reloaded and UI updated successfully">>,
                            "ok", "applied")]
       ELSE /\ UNCHANGED <<caches, views, templateFields>>
            /\ ops' = [ops EXCEPT ![i] =
                   Finished(ops[i], <<"error", ReloadErrorMessage(r)>>, "ok", "failed")]
    /\ lastSnap' = IF ops[i].resp.shape = "ok" THEN ops[i].resp ELSE lastSnap
    /\ overlay' = FALSE
    /\ UNCHANGED <<server, dayInfo, clicks, srvAnnouncements, saveIniStatus>>

\* The rest of updateUIAfterReload once its fetch settled, and the finally
\* block of the saveIniFile that awaited it: both caches replaced and
\* rendered, the four template fields set, the upcoming list computed, a
\* success notification; or, on any failure, an error notification.
UpdateUIAfterReloadResponse(i) ==
    /\ ops[i].pc = "snapResp"
    /\ ops[i].kind = "saveIni"
    /\ LET r == ops[i].resp IN
       IF r.shape = "ok"
       THEN /\ UpdateScheduleData(r.times)
            /\ UpdateCustomTypes(r.types)
            /\ templateFields' = r.ann
            /\ \E t \in Instants : clock' = t /\ upcoming' = UpcomingOf(timesText', t)
            /\ ops' = [ops EXCEPT ![i] =
                   Finished(ops[i],
                            <<"success", "Configuration reloaded and UI updated successfully">>,
                            "ok", "applied")]
       ELSE /\ UNCHANGED <<caches, views, templateFields>>
            /\ ops' = [ops EXCEPT ![i] =
                   Finished(ops[i], <<"error", ReloadErrorMessage(r)>>, "ok", "failed")]
    /\ lastSnap' = IF ops[i].resp.shape = "ok" THEN ops[i].resp ELSE lastSnap
    /\ overlay' = FALSE
    /\ UNCHANGED <<server, dayInfo, clicks, srvAnnouncements, saveIniStatus>>

\* The page after its load with some configuration in the remote store, its
\* template fields as the store's bodies were when the page was served.
ReloadInit ==
    /\ \E store \in Stores :
          srvTimes = store[1] /\ srvTypes = store[2] /\ srvAnnouncements = store[3]
    /\ times = <<>> /\ types = <<>>
    /\ scheduleList = ScheduleListOf(<<>>)
    /\ timesText = TimesTextOf(<<>>)
    /\ typesList = TypesListOf(<<>>)
    /\ typeSelect = TypeDropdownOf(PageOptions, <<>>)
    /\ clock \in Instants
    /\ upcoming = UpcomingOf(timesText, clock)
    /\ overlay = FALSE
    /\ dayInfo = "current day"
    /\ clicks = 0
    /\ lastSnap = NoResp
    /\ ops = [i \in OpIds |-> IdleOp]
    /\ templateFields = srvAnnouncements
    /\ saveIniStatus = NoStatus

ReloadNext ==
    \/ \E i \in OpIds, fileLoaded \in BOOLEAN, blank \in BOOLEAN : SaveIniStart(i, fileLoaded, blank)
    \/ \E i \in OpIds, shape \in {"ok", "httpErr", "badJson", "netErr"},
          msg \in SaveMsgs \cup ErrMsgs, reload \in BOOLEAN, store \in Stores :
          ServerSaveIni(i, shape, msg, reload, store)
    \/ \E i \in OpIds : SaveIniResponse(i)
    \/ \E i \in OpIds : \E r \in Snapshots \cup FailedFetches : ServerSnapshot(i, r)
    \/ \E i \in OpIds : UpdateUIAfterReloadResponse(i)

\* Saving configuration files, with the reload that follows a save of the
\* active configuration.
ReloadSpec == ReloadInit /\ [][ReloadNext]_vars

\* The page after a refresh that brought one schedule entry, and a remote
\* store that may have changed since (another operator's page, a saved
\* file): it holds the entry, another type for it, or nothing.
StaleInit ==
    /\ srvTimes \in PartialMaps(TimeKeys, Tokens)
    /\ srvTypes \in PartialMaps(CustomNames, Templates)
    /\ \E time \in TimeKeys, type \in BuiltinOptions :
          /\ times = <<<<time, type>>>>
          /\ lastSnap = [NoResp EXCEPT !.shape = "ok", !.times = times,
                                       !.ann = [hour |-> "H1", fiftyfive |-> "F1",
                                                rules |-> "R1", ad |-> "A1"]]
    /\ types = <<>>
    /\ scheduleList = ScheduleListOf(times)
    /\ timesText = TimesTextOf(times)
    /\ typesList = TypesListOf(types)
    /\ typeSelect = TypeDropdownOf(PageOptions, types)
    /\ clock \in Instants
    /\ upcoming = UpcomingOf(timesText, clock)
    /\ overlay = FALSE
    /\ dayInfo = "current day"
    /\ clicks = 0
    /\ ops = [i \in OpIds |-> IdleOp]
    /\ FixedConfig

DeleteNext ==
    \/ \E i \in OpIds, time \in TimeKeys, confirmed \in BOOLEAN : DeleteTimeStart(i, time, confirmed)
    \/ \E i \in OpIds, shape \in {"ok", "httpErr", "badJson", "netErr"}, err \in ErrMsgs \cup {""} :
          ServerMutate(i, shape, err)
    \/ \E i \in OpIds : MutateResponse(i)
    \/ \E i \in OpIds, ok \in BOOLEAN : DayConfigDone(i, ok)
    \/ \E i \in OpIds : \E r \in Snapshots \cup FailedFetches : ServerSnapshot(i, r)
    \/ \E i \in OpIds : RefreshStateResponse(i)

\* Deletions from a list that may be out of date.
DeleteSpec == StaleInit /\ [][DeleteNext]_vars

\* A line of the schedule field and a line break.
Ln(line) == line \o <<"\n">>

\* The page after its load, both caches empty, with a schedule field the
\* operator has edited by hand to one or two lines of RawLines.
RawInit ==
    /\ srvTimes = <<>> /\ srvTypes = <<>>
    /\ times = <<>> /\ types = <<>>
    /\ scheduleList = ScheduleListOf(<<>>)
    /\ timesText \in RawLines \cup { Ln(a) \o b : a, b \in RawLines }
    /\ typesList = TypesListOf(<<>>)
    /\ typeSelect = TypeDropdownOf(PageOptions, <<>>)
    /\ clock \in RawInstants
    /\ upcoming = UpcomingOf(<<>>, clock)
    /\ overlay = FALSE
    /\ dayInfo = "current day"
    /\ clicks = 0
    /\ lastSnap = NoResp
    /\ ops = [i \in OpIds |-> IdleOp]
    /\ FixedConfig

RawNext == \E t \in RawInstants : UpdateUpcomingAnnouncements(t)

\* The projector applied to hand-edited schedule text.
RawSpec == RawInit /\ [][RawNext]_vars

\* A remote store that holds some schedule and does not change, the page
\* with both caches empty, at an instant that does not change.
IdemInit ==
    /\ srvTimes \in PartialMaps(ListKeys, ListTokens)
    /\ srvTypes \in PartialMaps(CustomNames, Templates)
    /\ times = <<>> /\ types = <<>>
    /\ scheduleList = ScheduleListOf(<<>>)
    /\ timesText = TimesTextOf(<<>>)
    /\ typesList = TypesListOf(<<>>)
    /\ typeSelect = TypeDropdownOf(PageOptions, <<>>)
    /\ clock \in ProjInstants
    /\ upcoming = UpcomingOf(timesText, clock)
    /\ overlay = FALSE
    /\ dayInfo = "current day"
    /\ clicks = 0
    /\ lastSnap = NoResp
    /\ ops = [i \in OpIds |-> IdleOp]
    /\ FixedConfig

\* One run of refreshState's update on the snapshot r of the unchanged
\* store, at the unchanged instant.
RefreshOnce(r) ==
    /\ clicks < MaxOps
    /\ UpdateScheduleData(r.times)
    /\ UpdateCustomTypes(r.types)
    /\ upcoming' = UpcomingOf(timesText', clock)
    /\ clicks' = clicks + 1
    /\ lastSnap' = r
    /\ UNCHANGED <<server, clock, overlay, dayInfo, ops>>
    /\ UNCHANGED config

IdemNext == \E r \in Snapshots : RefreshOnce(r)

\* Refreshes in a row against an unchanged snapshot.
IdemSpec == IdemInit /\ [][IdemNext]_vars

\* The remote store may also answer with a body that lacks a mapping.
NextLax ==
    \/ Next
    \/ \E i \in OpIds : \E r \in PartialSnapshots : ServerSnapshotPartial(i, r)
    \/ \E i \in OpIds : \E r \in PartialSnapshots : ServerUpdateSchedulePartial(i, r)

SpecLax == Init /\ [][NextLax]_vars

\* A body with HTTP status 200 whose "status" field is not 'success', and
\* which carries an error message and no mapping.
StatusFailures == { [NoResp EXCEPT !.shape = "statusErr", !.err = e] : e \in ErrMsgs }

\* The remote store answers POST /update_schedule with such a body.
ServerUpdateScheduleStatus(i, r) ==
    /\ ops[i].pc = "snapReq"
    /\ ops[i].kind = "refreshSchedule"
    /\ r \in StatusFailures
    /\ ops' = [ops EXCEPT ![i].pc = "snapResp", ![i].resp = r]
    /\ UNCHANGED <<server, caches, views, overlay, dayInfo, clicks, lastSnap>>
    /\ UNCHANGED config

FailNext ==
    \/ Next
    \/ \E i \in OpIds, fileLoaded \in BOOLEAN, blank \in BOOLEAN : SaveIniStart(i, fileLoaded, blank)
    \/ \E i \in OpIds, shape \in {"ok", "httpErr", "badJson", "netErr"},
          msg \in SaveMsgs \cup ErrMsgs, reload \in BOOLEAN, store \in Stores :
          ServerSaveIni(i, shape, msg, reload, store)
    \/ \E i \in OpIds : SaveIniResponse(i)
    \/ \E i \in OpIds : UpdateUIAfterReloadResponse(i)
    \/ \E i \in OpIds : \E r \in StatusFailures : ServerUpdateScheduleStatus(i, r)

\* The three paths that fetch a snapshot (refreshState after a mutation,
\* refreshSchedule, the reload after a saved configuration file), each with
\* every way its fetch can fail.
FailSpec == ReloadInit /\ [][FailNext]_vars

\* The steps that settle call i: the remote store's answers and the
\* continuations that read them.
Settle(i) ==
    \/ \E shape \in {"ok", "httpErr", "badJson", "netErr"}, err \in ErrMsgs \cup {""} :
          ServerMutate(i, shape, err)
    \/ MutateResponse(i)
    \/ \E ok \in BOOLEAN : DayConfigDone(i, ok)
    \/ \E r \in Snapshots \cup FailedFetches : ServerSnapshot(i, r)
    \/ RefreshStateResponse(i)
    \/ \E r \in Snapshots \cup FailedUpdates : ServerUpdateSchedule(i, r)
    \/ RefreshScheduleResponse(i)

\* Every request is answered or fails (there is no cancellation), and the
\* event loop runs every continuation whose promise has settled.  A call takes finitely many steps, so fairness of the settling steps taken
\* together lets every call in flight run to its end.
FairSpec == Spec /\ WF_vars(\E i \in OpIds : Settle(i))

(* ------------------------------ claims --------------------------------- *)

Quiescent == \A j \in OpIds : Free(ops[j])

\* The mapping a sequence of entries lists.
EntriesToFun(entries) ==
    [k \in { entries[n][1] : n \in DOMAIN entries } |->
        entries[CHOOSE n \in DOMAIN entries : entries[n][1] = k][2]]

CachesMatchServer == MapToFun(times) = srvTimes /\ MapToFun(types) = srvTypes

\* C1: a mutation (addTime, deleteTime, addType) that the remote store
\* accepted goes on to refreshState and returns only after the snapshot fetch
\* it issued has settled; no step of the call other than the one that reads
\* the snapshot response changes a cache, so neither the payload nor the
\* mutation's response is ever written into one.
C1_MutateThenResync ==
    [][\A i \in OpIds :
          (ops'[i] /= ops[i] /\ ops'[i].kind \in MutateKinds) =>
             /\ ops[i].pc /= "snapResp" => UNCHANGED caches
             /\ (ops[i].pc = "mutResp" /\ ops[i].resp.shape = "ok") => ops'[i].pc = "dayWait"
             /\ ops[i].pc = "dayWait" => (ops'[i].pc = "snapReq" /\ ops'[i].snap = "sent")
             /\ (ops'[i].pc = "done" /\ ops'[i].mut = "ok") =>
                   (ops[i].pc = "snapResp" /\ ops[i].snap = "sent")]_vars

\* C1 witness: an accepted mutation has returned after its snapshot was
\* applied, and the cache holds an entry.
C1_Witness ==
    \E i \in OpIds :
        /\ ops[i].pc = "done" /\ ops[i].kind \in MutateKinds
        /\ ops[i].mut = "ok" /\ ops[i].snap = "applied"
        /\ times /= <<>>

\* C2: whenever a mutation that showed its success notification has returned
\* and no call is in flight, both caches equal the remote store's mappings.
C2_SuccessMeansSynced ==
    \A i \in OpIds :
        (/\ Quiescent
         /\ ops[i].pc = "done" /\ ops[i].kind \in MutateKinds
         /\ ops[i].note /= NoNote /\ ops[i].note[1] = "success")
        => CachesMatchServer

\* C3: no step of a mutation whose remote call has not succeeded changes a
\* cache, the schedule list or the schedule text; the call whose remote call
\* failed returns at once and never issues a snapshot fetch.
C3_FailedMutationTouchesNothing ==
    [][\A i \in OpIds :
          (ops'[i] /= ops[i] /\ ops'[i].kind \in MutateKinds /\ ops'[i].mut /= "ok") =>
             /\ UNCHANGED <<caches, scheduleViews>>
             /\ ops'[i].snap = "none"
             /\ ops'[i].mut = "fail" => ops'[i].pc = "done"]_vars

\* C3 witness: a mutation whose remote call failed has returned while the
\* cache holds an entry.
C3_Witness ==
    \E i \in OpIds :
        /\ ops[i].pc = "done" /\ ops[i].kind \in MutateKinds
        /\ ops[i].mut = "fail" /\ ops[i].snap = "none"
        /\ times /= <<>>

\* Every remote call of the calls that have returned succeeded.
AllCallsSucceeded ==
    \A j \in OpIds :
        ops[j].pc = "done" =>
            /\ ops[j].mut /= "fail"
            /\ ops[j].day /= "failed"
            /\ ops[j].snap = "applied"

\* C4: once two overlapping calls have both returned, no call is in flight and
\* every remote call succeeded, both caches equal the remote store's mappings.
C4_OverlapEndsSynced ==
    (/\ \A j \in OpIds : ops[j].pc = "done"
     /\ AllCallsSucceeded)
    => CachesMatchServer

\* C5: when no call is in flight, both caches hold exactly the entries of the
\* snapshot response that was applied last, in its order, and nothing else.
C5_LastAppliedSnapshotWins ==
    (Quiescent /\ lastSnap.shape = "ok") =>
        (times = lastSnap.times /\ types = lastSnap.types)

\* C5 witness: two overlapping calls have both applied a snapshot and
\* returned, and the one applied last was not the remote store's latest state.
C5_Witness ==
    /\ \A j \in OpIds : ops[j].pc = "done" /\ ops[j].snap = "applied"
    /\ times = lastSnap.times /\ types = lastSnap.types
    /\ ~CachesMatchServer

\* C6: the step that reads a successful snapshot response (in refreshState
\* or in refreshSchedule) leaves ScheduleCache equal to the response's times
\* mapping and CustomTypeCache equal to its custom_types mapping, with no
\* other entry.
C6_RefreshReplacesBoth ==
    [][\A i \in OpIds :
          (ops[i].pc = "snapResp" /\ ops[i].resp.shape = "ok" /\ ops'[i].pc = "done") =>
             /\ MapToFun(times') = EntriesToFun(ops[i].resp.times)
             /\ Len(times') = Len(ops[i].resp.times)
             /\ MapToFun(types') = EntriesToFun(ops[i].resp.types)
             /\ Len(types') = Len(ops[i].resp.types)]_vars

\* C6 witness: a refresh has applied a snapshot with a schedule entry and a
\* custom type.
C6_Witness ==
    \E i \in OpIds :
        /\ ops[i].pc = "done" /\ ops[i].snap = "applied"
        /\ times /= <<>> /\ types /= <<>>
        /\ times = lastSnap.times /\ types = lastSnap.types

\* C7: the step that reads the response of a snapshot fetch either leaves
\* both caches as they were or replaces both from that response, whatever
\* the response holds.
C7_BothOrNeither ==
    [][\A i \in OpIds :
          (ops[i].pc = "snapResp" /\ ops'[i].pc = "done") =>
             \/ UNCHANGED caches
             \/ /\ ops[i].resp.shape = "ok"
                /\ times' = ReplaceAll(times, ops[i].resp.times)
                /\ types' = ReplaceAll(types, ops[i].resp.types)]_vars

\* C8: a call that has returned after one of its remote calls failed (the
\* mutation, the refresh, or the snapshot fetch after a mutation) has shown
\* an error notification.
C8_EveryFailureShown ==
    \A i \in OpIds :
        (ops[i].pc = "done" /\ (ops[i].mut = "fail" \/ ops[i].snap = "failed"))
        => (ops[i].note /= NoNote /\ ops[i].note[1] = "error")

\* C9: a mutation whose request has been sent eventually returns having shown
\* a success or an error notification.
C9_MutationEndsNotified ==
    \A i \in OpIds :
        (ops[i].pc = "mutReq") ~>
            (/\ ops[i].pc = "done"
             /\ ops[i].note /= NoNote
             /\ ops[i].note[1] \in {"success", "error"})

\* C9 witness: a mutation has returned with its notification although the
\* snapshot fetch that followed it failed.
C9_Witness ==
    \E i \in OpIds :
        /\ ops[i].pc = "done" /\ ops[i].kind \in MutateKinds
        /\ ops[i].mut = "ok" /\ ops[i].snap = "failed"
        /\ ops[i].note = <<"success", SuccessMessage(ops[i].kind)>>

C11_AlwaysBackToReady ==
    \A i \in OpIds :
        (~Free(ops[i])) ~> (ops[i].pc = "done" /\ overlay = FALSE)

\* C11 witness: a manual refresh whose remote call failed has returned with
\* its error shown and the overlay cleared.
C11_Witness ==
    \E i \in OpIds :
        /\ ops[i].pc = "done" /\ ops[i].kind = "refreshSchedule"
        /\ ops[i].snap = "failed"
        /\ overlay = FALSE

\* C12: in every reachable state in which a call is suspended on a remote
\* call the busy overlay is active.
C12_BusyWhileSuspended ==
    (\E i \in OpIds : ~Free(ops[i])) => overlay = TRUE

\* C13: a click on addTime or addType either sends the request with
\* non-empty inputs (name and template trimmed), or returns at once with a
\* warning shown, no request sent and the caches and the remote store
\* unchanged.
C13_LocalErrorsRejected ==
    [][\A i \in OpIds :
          (Free(ops[i]) /\ ops'[i] /= ops[i] /\ ops'[i].kind \in {"addTime", "addType"}) =>
             \/ /\ ops'[i].pc = "mutReq"
                /\ ops'[i].arg[1] /= <<>>
                /\ ops'[i].kind = "addTime" => ops'[i].arg[2] /= <<>>
                /\ ops'[i].kind = "addType" =>
                      /\ Trim(ops'[i].arg[1]) = ops'[i].arg[1]
                      /\ ops'[i].arg[2] /= "" /\ TrimText(ops'[i].arg[2]) = ops'[i].arg[2]
             \/ /\ ops'[i].pc = "done"
                /\ ops'[i].note /= NoNote /\ ops'[i].note[1] = "warning"
                /\ ops'[i].mut = "none" /\ ops'[i].snap = "none"
                /\ UNCHANGED <<server, caches>>]_vars

\* C13 witness: addType was refused for an empty input while a custom type
\* is cached.
C13_Witness ==
    \E i \in OpIds :
        /\ ops[i].pc = "done" /\ ops[i].kind = "addType"
        /\ ops[i].note = <<"warning", "Please enter both name and template">>
        /\ types /= <<>>

\* C14: a mutation request is sent only by a click, a snapshot request only
\* by a click or by the mutation that just succeeded, and the call that
\* reads a failed response returns instead of sending the request again.
C14_NoAutomaticRetry ==
    [][\A i \in OpIds :
          (ops'[i] /= ops[i]) =>
             /\ ops'[i].pc = "mutReq" => (Free(ops[i]) /\ clicks' = clicks + 1)
             /\ ops'[i].pc = "snapReq" =>
                   \/ ops[i].pc = "dayWait" /\ ops[i].mut = "ok"
                   \/ Free(ops[i]) /\ clicks' = clicks + 1
             /\ (ops[i].pc = "mutResp" /\ ops[i].resp.shape /= "ok") => ops'[i].pc = "done"
             /\ ops[i].pc = "snapResp" => ops'[i].pc = "done"]_vars

\* C14 witness: a mutation succeeded, its snapshot fetch failed and the call
\* has returned; no other call was started.
C14_Witness ==
    \E i \in OpIds :
        /\ ops[i].pc = "done" /\ ops[i].kind \in MutateKinds
        /\ ops[i].snap = "failed"
        /\ \A j \in OpIds \ {i} : ops[j].pc = "idle"
        /\ clicks = 1

\* C15: a refresh that follows a refresh, against the same server snapshot
\* and at the same instant, leaves the schedule list, the schedule text and
\* the upcoming list as they were and both caches with the same mappings.
C15_RefreshIdempotent ==
    [][clicks >= 1 =>
          /\ UNCHANGED <<scheduleList, timesText, upcoming>>
          /\ MapToFun(times') = MapToFun(times) /\ Len(times') = Len(times)
          /\ MapToFun(types') = MapToFun(types) /\ Len(types') = Len(types)]_vars

\* C15 witness: two refreshes in a row have run on a snapshot with two
\* schedule entries, one of them due within the hour.
C15_Witness ==
    /\ clicks = 2
    /\ Len(times) = 2
    /\ upcoming /= <<>>
    /\ lastSnap.shape = "ok" /\ MapToFun(times) = EntriesToFun(lastSnap.times)

\* The time keys of the lines of the schedule text.
LineTimes(text) ==
    IF text = <<>> THEN <<>>
    ELSE LET lines == Split(text, "\n") IN [k \in DOMAIN lines |-> SubSeq(lines[k], 1, 5)]

\* No two elements of the sequence are equal.
Distinct(seq) == \A a, b \in DOMAIN seq : seq[a] = seq[b] => a = b

\* C16: the schedule cache never holds two entries for one time key, the
\* key written last holds the type written last, and the schedule list and
\* the schedule text show one entry per time key.
C16_OneTypePerKey ==
    /\ Distinct([n \in DOMAIN times |-> times[n][1]])
    /\ Distinct([n \in DOMAIN scheduleList |-> scheduleList[n].del])
    /\ Distinct(LineTimes(timesText))
    /\ ops[1].kind = "set" =>
          /\ Cardinality({ n \in DOMAIN times : times[n][1] = ops[1].arg[1] }) = 1
          /\ \A n \in DOMAIN times :
                times[n][1] = ops[1].arg[1] => times[n][2] = ops[1].arg[2]
          /\ \A n \in DOMAIN scheduleList :
                scheduleList[n].del = ops[1].arg[1] => scheduleList[n].type = ops[1].arg[2]

\* C16 witness: the last write went to a key the cache already held (it is
\* not the last entry of the Map) and the cache holds two entries.
C16_Witness ==
    /\ ops[1].kind = "set"
    /\ Len(times) = 2
    /\ times[1][1] = ops[1].arg[1]

\* C17: the schedule list and the lines of the schedule text hold the
\* cache's keys in strictly ascending string order, whatever the order the
\* Map holds them in.
C17_ListSorted ==
    /\ Len(scheduleList) = Len(times)
    /\ { scheduleList[n].del : n \in DOMAIN scheduleList } = MapKeys(times)
    /\ \A a, b \in DOMAIN scheduleList :
          a < b => StrLess(scheduleList[a].del, scheduleList[b].del)
    /\ Len(LineTimes(timesText)) = Len(times)
    /\ \A a, b \in DOMAIN LineTimes(timesText) :
          a < b => StrLess(LineTimes(timesText)[a], LineTimes(timesText)[b])

\* C17 witness: the Map holds two entries, the later time first.
C17_Witness ==
    /\ Len(times) = 2
    /\ StrLess(times[2][1], times[1][1])
    /\ Len(scheduleList) = 2

\* C18: the lines of the schedule text, parsed the way the projector parses
\* them, give the mapping the cache holds.
C18_SerializeRoundTrip ==
    /\ Len(ParseSchedule(timesText)) = Len(times)
    /\ \A n \in DOMAIN ParseSchedule(timesText) :
          /\ MapHas(times, ParseSchedule(timesText)[n].time)
          /\ times[MapGet(times, ParseSchedule(timesText)[n].time)][2]
                = ParseSchedule(timesText)[n].type

\* Seconds after midnight of a time key "HH:MM".
KeySeconds(k) ==
    (DigitValue(k[1]) * 10 + DigitValue(k[2])) * 3600
        + (DigitValue(k[4]) * 10 + DigitValue(k[5])) * 60

\* The rollover rule: the key's time today, or tomorrow when today's is
\* strictly before t.
OccursAt(k, t) == IF KeySeconds(k) < t THEN KeySeconds(k) + 86400 ELSE KeySeconds(k)

\* Minutes from t to the key's occurrence, to the nearest minute, halves up.
RoundedMinutes(k, t) == (OccursAt(k, t) - t + 30) \div 60

\* C19: for every cached entry and the instant of the projection, the
\* projector's schedule time is the key's time today, or tomorrow when
\* today's is strictly before the instant; it is never before the instant
\* and the minutes until it are never negative (10:00 at 10:30 is 1410
\* minutes away, 10:00 at 09:45 is 15 minutes away).
C19_Rollover ==
    /\ \A n \in DOMAIN times :
          LET k == times[n][1]
              at == ScheduleTime(k, clock)
          IN  /\ KeySeconds(k) < clock => at = KeySeconds(k) + 86400
              /\ KeySeconds(k) >= clock => at = KeySeconds(k)
              /\ at >= clock
              /\ MinutesUntil(at, clock) >= 0
              /\ (k = <<"1","0",":","0","0">> /\ clock = 37800) => MinutesUntil(at, clock) = 1410
              /\ (k = <<"1","0",":","0","0">> /\ clock = 35100) => MinutesUntil(at, clock) = 15
    /\ \A j \in DOMAIN upcoming : upcoming[j].countdown >= 0

\* C19 witness: at 10:30 the cache holds 10:00 and 10:55; 10:00 has rolled
\* over and only 10:55 is listed, 25 minutes away.
C19_Witness ==
    /\ clock = 37800
    /\ MapKeys(times) = ListKeys
    /\ Len(upcoming) = 1
    /\ upcoming[1].countdown = 25

\* The lines of the schedule text that are at most 60 minutes away.
DueLines ==
    { n \in DOMAIN ParseSchedule(timesText) :
        RoundedMinutes(ParseSchedule(timesText)[n].time, clock) <= 60 }

\* C20: the upcoming list holds exactly the lines of the schedule whose
\* rounded minutes until their occurrence are at most 60, each with its time,
\* its type and its minutes: 60 minutes is listed, 61 is not, 0 is.
C20_WindowOfSixty ==
    /\ Len(upcoming) = Cardinality(DueLines)
    /\ \A n \in DueLines :
          \E j \in DOMAIN upcoming :
             /\ upcoming[j].time = FormatTime(ParseSchedule(timesText)[n].time)
             /\ upcoming[j].type = ParseSchedule(timesText)[n].type
             /\ upcoming[j].countdown
                   = RoundedMinutes(ParseSchedule(timesText)[n].time, clock)
    /\ \A j \in DOMAIN upcoming : upcoming[j].countdown <= 60

\* C20 witness: at 09:00:00 the schedule holds 10:00 and 10:55; 10:00 is
\* exactly 60 minutes away and is the only item listed.
C20_Witness ==
    /\ clock = 32400
    /\ MapKeys(times) = ListKeys
    /\ Len(upcoming) = 1
    /\ upcoming[1].countdown = 60

\* Seconds after midnight of a time key of NightKeys.
NightSeconds(k) ==
    CASE k = <<"0","0",":","1","0">> -> 600
      [] k = <<"0",":","1","0">> -> 600
      [] k = <<"2","3",":","5","0">> -> 85800

\* The occurrence of a key of NightKeys at or after t.
NightOccursAt(k, t) == IF NightSeconds(k) < t THEN NightSeconds(k) + 86400 ELSE NightSeconds(k)

\* Line a comes before line b: it occurs earlier, or at the same instant with
\* the smaller time key.
ComesBefore(a, b, t) ==
    \/ NightOccursAt(a.time, t) < NightOccursAt(b.time, t)
    \/ /\ NightOccursAt(a.time, t) = NightOccursAt(b.time, t)
       /\ StrLess(a.time, b.time)

\* The lines of the schedule text at most 60 minutes away, in the order of
\* their occurrence, equal occurrences in the order of their time keys.
ExpectedOrder ==
    LET lines == ParseSchedule(timesText)
        due == { n \in DOMAIN lines :
                   (NightOccursAt(lines[n].time, clock) - clock + 30) \div 60 <= 60 }
        p == CHOOSE q \in [1..Cardinality(due) -> due] :
                 /\ \A n \in due : \E j \in DOMAIN q : q[j] = n
                 /\ \A a, b \in DOMAIN q : a < b => ComesBefore(lines[q[a]], lines[q[b]], clock)
    IN  [j \in 1..Cardinality(due) |-> lines[p[j]]]

\* C21: the upcoming list holds the due lines in the order of their
\* occurrence, lines that occur at the same instant in ascending order of
\* their time keys; the minutes shown never decrease down the list.
C21_SortedByOccurrence ==
    /\ Len(upcoming) = Len(ExpectedOrder)
    /\ \A j \in DOMAIN upcoming :
          /\ upcoming[j].type = ExpectedOrder[j].type
          /\ upcoming[j].time = FormatTime(ExpectedOrder[j].time)
    /\ \A a, b \in DOMAIN upcoming : a < b => upcoming[a].countdown <= upcoming[b].countdown

\* C21 witness: at 23:30:00 the cache holds 00:10, 0:10 and 23:50 with 0:10
\* written first; the list shows 23:50, then tomorrow's 00:10, then 0:10,
\* the two equal instants told apart by their types.
C21_Witness ==
    /\ clock = 84600
    /\ Len(times) = 3
    /\ times[1][1] = <<"0",":","1","0">>
    /\ Len(upcoming) = 3
    /\ upcoming[1].countdown = 20
    /\ upcoming[2].countdown = 40
    /\ upcoming[2].type /= upcoming[3].type
    /\ \E n \in DOMAIN times : times[n] = <<(<<"0","0",":","1","0">>), upcoming[2].type>>

\* A well-formed schedule line: a time key HH:MM within 00:00..23:59, '=',
\* and a type token.
WellFormedLine(line) ==
    LET parts == Split(line, "=")
        key == Trim(parts[1])
    IN  /\ Len(parts) = 2
        /\ Trim(parts[2]) /= <<>>
        /\ Len(key) = 5
        /\ key[3] = ":"
        /\ \A i \in {1, 2, 4, 5} : key[i] \in Digits
        /\ DigitValue(key[1]) * 10 + DigitValue(key[2]) <= 23
        /\ DigitValue(key[4]) * 10 + DigitValue(key[5]) <= 59

\* The well-formed lines of a schedule text.
WellFormedText(text) == Join(SelectSeq(Split(text, "\n"), WellFormedLine), "\n")

\* C22: a call of the projector on any schedule text completes without an
\* exception and lists what it would list for the well-formed lines of the
\* text alone.
C22_MalformedLinesSkipped ==
    [][ /\ ops'[2].pc /= "thrown"
        /\ upcoming' = UpcomingOf(WellFormedText(timesText'), clock') ]_vars

\* The display label the specification gives a type token.
DisplayName(token) ==
    CASE token = <<":", "5", "5">> -> <<"Color Warning">>
      [] token = <<"hour">> -> <<"Hour Change">>
      [] token = <<"rules">> -> <<"Rules">>
      [] token = <<"ad">> -> <<"Advertisement">>
      [] token /= <<>> /\ Head(token) = "custom:" -> Tail(token)
      [] OTHER -> token

\* C23: every item of the schedule list and of the upcoming list is labelled
\* with the name of its custom type, the built-in kind's fixed label, or
\* the token itself when it is neither; the two lists label a token alike.
C23_DisplayLabel ==
    /\ \A n \in DOMAIN scheduleList : scheduleList[n].label = DisplayName(scheduleList[n].type)
    /\ \A j \in DOMAIN upcoming : upcoming[j].label = DisplayName(upcoming[j].type)
    /\ \A n \in DOMAIN scheduleList, j \in DOMAIN upcoming :
          scheduleList[n].type = upcoming[j].type => scheduleList[n].label = upcoming[j].label

\* Every item of the list that shows a custom reference is labelled with the
\* reference's name, whatever the custom type cache holds.
CustomLabelled(list) ==
    \A n \in DOMAIN list :
        StartsWith(list[n].type, "custom:") =>
            list[n].label = <<"Custom: ">> \o Tail(list[n].type)

\* C24: after every step the items of the schedule list and of the upcoming
\* list that reference a custom type carry the label made of the reference's
\* name, whether or not the custom type cache holds that name and whatever
\* its template; a step that changes the custom types and not the schedule
\* leaves the schedule list as it was.
C24_DanglingReferenceRenders ==
    [][ /\ Len(scheduleList') = Len(times')
        /\ CustomLabelled(scheduleList')
        /\ CustomLabelled(upcoming')
        /\ (MapToFun(times') = MapToFun(times) /\ types' /= types)
              => scheduleList' = scheduleList ]_vars

\* C24 witness: a refresh has brought a schedule entry that references the
\* custom type "vip" and no custom type of that name; the schedule list and
\* the upcoming list show it as "Custom: vip".
C24_Witness ==
    /\ lastSnap.shape = "ok"
    /\ \E n \in DOMAIN times : times[n][2] = <<"custom:", "vip">>
    /\ ~MapHas(types, <<"vip">>)
    /\ \E n \in DOMAIN scheduleList : scheduleList[n].label = <<"Custom: ", "vip">>
    /\ \E j \in DOMAIN upcoming : upcoming[j].label = <<"Custom: ", "vip">>

\* The caches, the views and the upcoming list are what refreshState's
\* update leaves of the snapshot r.
AsRefreshOf(r) ==
    /\ UpdateScheduleData(r.times)
    /\ UpdateCustomTypes(r.types)
    /\ upcoming' = UpcomingOf(timesText', clock')

\* C25: the step of the reload sequence that reads a successful snapshot
\* response leaves both caches, the schedule views, the custom type views
\* and the upcoming list as a refresh with that snapshot leaves them, and
\* the four template fields equal to the snapshot's announcement bodies.
C25_ReloadIsRefreshPlusTemplates ==
    [][\A i \in OpIds :
          (ops[i].kind = "saveIni" /\ ops[i].pc = "snapResp"
              /\ ops[i].resp.shape = "ok" /\ ops'[i].pc = "done") =>
             /\ AsRefreshOf(ops[i].resp)
             /\ templateFields' = ops[i].resp.ann]_vars

\* C25 witness: a save that triggered a reload has ended with the snapshot
\* applied: a schedule entry that is listed as upcoming, a custom type, and
\* template fields that show the snapshot's bodies.
C25_Witness ==
    \E i \in OpIds :
        /\ ops[i].kind = "saveIni" /\ ops[i].pc = "done" /\ ops[i].snap = "applied"
        /\ times /= <<>> /\ times = lastSnap.times
        /\ types /= <<>> /\ types = lastSnap.types
        /\ upcoming /= <<>>
        /\ templateFields = lastSnap.ann
        /\ templateFields = [hour |-> "H2", fiftyfive |-> "F2", rules |-> "R2", ad |-> "A2"]

\* C26: both caches are empty when the session starts, and a step puts an
\* entry into either of them only by reading a successful snapshot response;
\* until such a step both stay empty.
C26_EmptyUntilFirstSnapshot ==
    /\ times = <<>> /\ types = <<>>
    /\ [][ /\ (caches' /= caches /\ (times' /= <<>> \/ types' /= <<>>)) =>
                \E i \in OpIds : /\ ops[i].pc = "snapResp"
                                 /\ ops[i].resp.shape = "ok"
                                 /\ ops'[i].snap = "applied"
           /\ lastSnap'.shape = "none" => (times' = <<>> /\ types' = <<>>) ]_vars

\* C26 witness: the remote store has accepted a new time, the snapshot fetch
\* that followed has failed, and both caches are still empty.
C26_Witness ==
    /\ \E i \in OpIds : /\ ops[i].kind = "addTime" /\ ops[i].pc = "done"
                        /\ ops[i].mut = "ok" /\ ops[i].snap = "failed"
    /\ DOMAIN srvTimes /= {}
    /\ lastSnap.shape = "none"
    /\ times = <<>> /\ types = <<>>

C28_ViewsMatchCaches ==
    /\ scheduleList = ScheduleListOf(times)
    /\ timesText = TimesTextOf(times)
    /\ typesList = TypesListOf(types)

\* m is d seconds in minutes, rounded to the nearest minute, an exact half
\* minute up.
NearestMinute(m, d) == 60 * m - 30 <= d /\ d < 60 * m + 30

\* The seconds from 08:58:00 to 09:01:00.
BoundarySeconds == 32280..32460

\* C29: the minutes the projector computes for a cached entry are the seconds
\* to its occurrence rounded to the nearest minute, an exact half minute
\* up, at the instant of the projection and at every second from 08:58:00
\* to 09:01:00; at 08:59:31 the entry 10:00 (60 min 29 s away) is listed
\* with 60 minutes, at 08:59:30 (60 min 30 s away) it has 61 minutes and is
\* not listed.
C29_RoundHalfUp ==
    /\ \A n \in DOMAIN times :
          /\ NearestMinute(MinutesUntil(ScheduleTime(times[n][1], clock), clock),
                           OccursAt(times[n][1], clock) - clock)
          /\ \A now \in BoundarySeconds :
                NearestMinute(MinutesUntil(ScheduleTime(times[n][1], now), now),
                              OccursAt(times[n][1], now) - now)
    /\ \A j \in DOMAIN upcoming :
          \E n \in DOMAIN times :
             /\ upcoming[j].time = FormatTime(times[n][1])
             /\ NearestMinute(upcoming[j].countdown, OccursAt(times[n][1], clock) - clock)
    /\ (clock = 32371 /\ MapHas(times, <<"1","0",":","0","0">>)) =>
          \E j \in DOMAIN upcoming : upcoming[j].countdown = 60
    /\ (clock = 32370 /\ MapHas(times, <<"1","0",":","0","0">>)) =>
          /\ MinutesUntil(ScheduleTime(<<"1","0",":","0","0">>, clock), clock) = 61
          /\ upcoming = <<>>

\* C29 witness: at 08:59:31 the entry 10:00, 60 minutes and 29 seconds
\* away, is listed with 60 minutes.
C29_Witness ==
    /\ clock = 32371
    /\ MapHas(times, <<"1","0",":","0","0">>)
    /\ Len(upcoming) = 1
    /\ upcoming[1].countdown = 60

\* C30: the step in which refreshState or refreshSchedule applies a snapshot
\* leaves the schedule text equal to the serialization of the snapshot's
\* schedule, and the upcoming list equal to the projection of that text at
\* the instant of the step.
C30_ProjectionFromNewSnapshot ==
    [][\A i \in OpIds :
          (ops[i].kind \in MutateKinds \cup {"refreshSchedule"}
              /\ ops[i].pc = "snapResp" /\ ops[i].resp.shape = "ok" /\ ops'[i].pc = "done") =>
             /\ timesText' = TimesTextOf(SetAll(<<>>, ops[i].resp.times))
             /\ upcoming' = UpcomingOf(TimesTextOf(SetAll(<<>>, ops[i].resp.times)), clock')
             /\ \A j \in DOMAIN upcoming' :
                   \E n \in DOMAIN ops[i].resp.times :
                      /\ upcoming'[j].time = FormatTime(ops[i].resp.times[n][1])
                      /\ upcoming'[j].type = ops[i].resp.times[n][2]]_vars

\* C30 witness: at 08:30:00 a deletion of the listed 09:00 has ended with
\* its snapshot applied; the schedule is empty and so is the upcoming list.
C30_Witness ==
    /\ \E i \in OpIds : /\ ops[i].kind = "deleteTime" /\ ops[i].pc = "done"
                        /\ ops[i].mut = "ok" /\ ops[i].snap = "applied"
    /\ clock = 30600
    /\ lastSnap.shape = "ok" /\ lastSnap.times = <<>>
    /\ timesText = <<>>
    /\ upcoming = <<>>

\* The shapes of a snapshot fetch that failed: no response, a non-success
\* HTTP status, a body that is not JSON, a body whose status is not success.
FailedShapes == {"netErr", "httpErr", "badJson", "statusErr"}

\* Call i reads the response of its snapshot fetch in this step.
ReadsSnapshotResponse(i) == ops[i].pc = "snapResp" /\ ops'[i].pc = "done"

\* C31: when refreshState, refreshSchedule or the reload after a saved
\* configuration reads a snapshot fetch that failed (transport error,
\* non-success HTTP status, a response whose status is not success), both
\* caches, the schedule list, the schedule field and the upcoming list are
\* after the step exactly what they were before it.
C31_FailedFetchTouchesNothing ==
    [][\A i \in OpIds :
          (ReadsSnapshotResponse(i) /\ ops[i].resp.shape \in FailedShapes)
              => /\ caches' = caches
                 /\ scheduleViews' = scheduleViews
                 /\ upcoming' = upcoming]_vars

\* C32: when the day-configuration fetch of a refreshState fails, the call
\* goes on to send its snapshot fetch, and the step that reads a successful
\* response to that fetch leaves the schedule cache with exactly the
\* response's times and the custom type cache with exactly its custom types.
C32_DayConfigFailureDoesNotStopResync ==
    [][\A i \in OpIds :
          /\ (ops[i].pc = "dayWait" /\ ops'[i].pc /= "dayWait" /\ ops'[i].day = "failed") =>
                 ops'[i].pc = "snapReq" /\ ops'[i].snap = "sent"
          /\ (ReadsSnapshotResponse(i) /\ ops[i].day = "failed"
                 /\ ops[i].resp.shape = "ok") =>
                 /\ ops'[i].snap = "applied"
                 /\ times' = ReplaceAll(<<>>, ops[i].resp.times)
                 /\ types' = ReplaceAll(<<>>, ops[i].resp.types)]_vars

\* C32 witness: a call whose day-configuration fetch failed has returned
\* after applying a snapshot that changed both caches from empty.
C32_Witness ==
    \E i \in OpIds :
        /\ ops[i].pc = "done" /\ ops[i].day = "failed" /\ ops[i].snap = "applied"
        /\ dayInfo = "Error loading"
        /\ times /= <<>> /\ types /= <<>>
        /\ times = lastSnap.times /\ types = lastSnap.types

\* The options of a selector whose value is a custom reference, and the others.
CustomOptions(options) == SelectSeq(options, LAMBDA o : StartsWith(o, "custom:"))
BuiltinPart(options) == SelectSeq(options, LAMBDA o : ~StartsWith(o, "custom:"))

\* C33: the step that reads a successful snapshot response leaves the type
\* selector with its built-in options as they were and with exactly one
\* custom:<name> option for each name of the custom type cache, in the
\* cache's order, and no other custom option; and a step that sends an
\* add-time request with a custom type sends a name that the snapshot
\* applied last holds.
C33_SelectorOffersCachedTypes ==
    [][\A i \in OpIds :
          /\ (ReadsSnapshotResponse(i) /\ ops[i].resp.shape = "ok") =>
                 /\ BuiltinPart(typeSelect') = BuiltinPart(typeSelect)
                 /\ CustomOptions(typeSelect') =
                        [n \in DOMAIN types' |-> <<"custom:">> \o types'[n][1]]
                 /\ MapKeys(types') = MapKeys(ops[i].resp.types)
          /\ (Free(ops[i]) /\ ops'[i].kind = "addTime" /\ ops'[i].pc = "mutReq"
                 /\ StartsWith(ops'[i].arg[2], "custom:")) =>
                 /\ lastSnap.shape = "ok"
                 /\ Tail(ops'[i].arg[2]) \in MapKeys(lastSnap.types)]_vars

\* C33 witness: after a refresh that brought a custom type, an add-time
\* request with that type is on its way, the selector offering the built-in
\* option and the custom one.
C33_Witness ==
    \E i \in OpIds :
        /\ ops[i].kind = "addTime" /\ ops[i].pc = "mutReq"
        /\ StartsWith(ops[i].arg[2], "custom:")
        /\ lastSnap.shape = "ok" /\ types /= <<>>
        /\ Len(typeSelect) = Len(PageOptions) + Len(types)

====
